---- MODULE Spec2Model ----
(***************************************************************************)
(* A model of the ><> ("fish") interpreter of noirotm/fishr:               *)
(*   src/src/val.rs    Val, its coercions, checked arithmetic, equality     *)
(*   src/src/stack.rs  ValStack and StackOfStacks                           *)
(*   src/src/fish.rs   CodeBox, Interpreter (run / fetch / execute /        *)
(*                     advance and every instruction)                       *)
(*                                                                         *)
(* Abstractions, stated once:                                              *)
(*  - i64 and usize are modelled with a narrower word: i64 is the range     *)
(*    I64_MIN..I64_MAX and usize is 0..USIZE_MAX with USIZE_MAX =           *)
(*    2*I64_MAX+1, so that `as usize` of a negative i64 still wraps to a    *)
(*    huge value and checked arithmetic still overflows.                    *)
(*  - f64 is modelled by exact rationals n/d (d > 0) plus +inf, -inf and    *)
(*    NaN (d = 0); rounding and the sign of zero are not modelled.          *)
(*  - thread::sleep (tick) changes no state and is left out.                *)
(*                                                                         *)
(* Four specifications: Spec runs whole programs, several runs in a row;    *)
(* SpecMath runs the arithmetic and comparison instructions on operands of  *)
(* every kind; SpecOps runs the stack, register, output and trampoline      *)
(* instructions; SpecIO runs the input instruction on several inputs.       *)
(* left, stderr, poked, hist and stdin record history.                      *)
(***************************************************************************)
EXTENDS Integers, Sequences, FiniteSets, TLC

(***************************************************************************)
(* Bounds of the model                                                     *)
(***************************************************************************)
I64_MAX == 32767
MaxVals == 5
MaxStacks == 3
MaxPushed == 2
MaxOutput == 3
MaxRuns == 3
MaxTrace == 4
MaxHist == 2

I64_MIN == -I64_MAX - 1
USIZE_MAX == 2 * I64_MAX + 1

(***************************************************************************)
(* Byte literals (b'x' in the source)                                      *)
(***************************************************************************)
ByteOf ==
    (" " :> 32) @@ ("!" :> 33) @@ ("\"" :> 34) @@ ("#" :> 35) @@
    ("$" :> 36) @@ ("%" :> 37) @@ ("&" :> 38) @@ ("'" :> 39) @@
    ("(" :> 40) @@ (")" :> 41) @@ ("*" :> 42) @@ ("+" :> 43) @@
    ("," :> 44) @@ ("-" :> 45) @@ ("." :> 46) @@ ("/" :> 47) @@
    ("0" :> 48) @@ ("1" :> 49) @@ ("2" :> 50) @@ ("3" :> 51) @@
    ("4" :> 52) @@ ("5" :> 53) @@ ("6" :> 54) @@ ("7" :> 55) @@
    ("8" :> 56) @@ ("9" :> 57) @@ (":" :> 58) @@ (";" :> 59) @@
    ("<" :> 60) @@ ("=" :> 61) @@ (">" :> 62) @@ ("?" :> 63) @@
    ("@" :> 64) @@ ("A" :> 65) @@ ("[" :> 91) @@ ("\\" :> 92) @@
    ("]" :> 93) @@ ("^" :> 94) @@ ("_" :> 95) @@ ("a" :> 97) @@
    ("b" :> 98) @@ ("c" :> 99) @@ ("d" :> 100) @@ ("e" :> 101) @@
    ("f" :> 102) @@ ("g" :> 103) @@ ("i" :> 105) @@ ("l" :> 108) @@
    ("n" :> 110) @@ ("o" :> 111) @@ ("p" :> 112) @@ ("r" :> 114) @@
    ("v" :> 118) @@ ("x" :> 120) @@ ("z" :> 122) @@ ("{" :> 123) @@
    ("|" :> 124) @@ ("}" :> 125) @@ ("~" :> 126)

B(c) == ByteOf[c]

(***************************************************************************)
(* val.rs: Val                                                             *)
(***************************************************************************)
RECURSIVE Gcd(_, _)
Gcd(a, b) == IF b = 0 THEN a ELSE Gcd(b, a % b)

Abs(a) == IF a < 0 THEN -a ELSE a

Val_Byte(b) == [t |-> "Byte", n |-> b, d |-> 1]

Val_Int(i) == [t |-> "Int", n |-> i, d |-> 1]

\* Val_Float(n/d); d = 0 encodes +inf (n = 1), -inf (n = -1) and NaN (n = 0)
Val_Float(n, d) ==
    IF d = 0 THEN [t |-> "Float", n |-> (IF n > 0 THEN 1 ELSE IF n < 0 THEN -1 ELSE 0), d |-> 0]
    ELSE LET s == IF d < 0 THEN -1 ELSE 1
             g == Gcd(Abs(n), Abs(d))
         IN  [t |-> "Float", n |-> (s * n) \div g, d |-> (s * d) \div g]

is_infinite(f) == f.d = 0 /\ f.n # 0

is_nan(f) == f.d = 0 /\ f.n = 0

\* f64::floor in place of f64::trunc
f64_floor(f) == f.n \div f.d

\* f64::trunc: the integral part, toward zero (unbounded here)
trunc(f) == IF f.n >= 0 THEN f.n \div f.d ELSE -((-f.n) \div f.d)

\* `as i64` of an f64: saturating, NaN gives 0
f64_as_i64(f) ==
    IF is_nan(f) THEN 0
    ELSE IF f.d = 0 THEN (IF f.n > 0 THEN I64_MAX ELSE I64_MIN)
    ELSE IF trunc(f) > I64_MAX THEN I64_MAX
    ELSE IF trunc(f) < I64_MIN THEN I64_MIN
    ELSE trunc(f)

\* `as u8` of an f64: saturating, NaN gives 0
f64_as_u8(f) ==
    IF is_nan(f) THEN 0
    ELSE IF f.d = 0 THEN (IF f.n > 0 THEN 255 ELSE 0)
    ELSE IF trunc(f) > 255 THEN 255
    ELSE IF trunc(f) < 0 THEN 0
    ELSE trunc(f)

to_i64(v) ==
    CASE v.t = "Byte" -> v.n
      [] v.t = "Int" -> v.n
      [] v.t = "Float" -> f64_as_i64(v)

to_u8(v) ==
    CASE v.t = "Byte" -> v.n
      [] v.t = "Int" -> v.n % 256
      [] v.t = "Float" -> f64_as_u8(v)

to_f64(v) ==
    CASE v.t = "Byte" -> Val_Float(v.n, 1)
      [] v.t = "Int" -> Val_Float(v.n, 1)
      [] v.t = "Float" -> v

\* IEEE addition on the rational model
f64_add(a, b) ==
    IF is_nan(a) \/ is_nan(b) THEN Val_Float(0, 0)
    ELSE IF a.d = 0 /\ b.d = 0 THEN (IF a.n = b.n THEN a ELSE Val_Float(0, 0))
    ELSE IF a.d = 0 THEN a
    ELSE IF b.d = 0 THEN b
    ELSE Val_Float(a.n * b.d + b.n * a.d, a.d * b.d)

f64_neg(a) == [a EXCEPT !.n = -a.n]

f64_sub(a, b) == f64_add(a, f64_neg(b))

f64_mul(a, b) ==
    IF is_nan(a) \/ is_nan(b) THEN Val_Float(0, 0)
    ELSE IF a.d = 0 \/ b.d = 0 THEN Val_Float(a.n * b.n, 0)
    ELSE Val_Float(a.n * b.n, a.d * b.d)

\* IEEE division: x/0 is infinite for x # 0, and 0/0, inf/inf are NaN
f64_div(a, b) ==
    IF is_nan(a) \/ is_nan(b) THEN Val_Float(0, 0)
    ELSE IF a.d = 0 /\ b.d = 0 THEN Val_Float(0, 0)
    ELSE IF a.d = 0 THEN (IF b.n < 0 THEN f64_neg(a) ELSE a)
    ELSE IF b.d = 0 THEN Val_Float(0, 1)
    ELSE Val_Float(a.n * b.d, a.d * b.n)

None == <<>>

Some(v) == <<v>>

\* wrapping arithmetic in place of checked arithmetic
i64_wrapping(r) == Some(Val_Int(((r - I64_MIN) % (USIZE_MAX + 1)) + I64_MIN))

i64_checked(r) == IF r > I64_MAX \/ r < I64_MIN THEN None ELSE Some(Val_Int(r))

\* checked_add without the arm for a Float on the right
checked_add_float_left_only(self, other) ==
    IF self.t = "Float" THEN Some(f64_add(self, to_f64(other)))
    ELSE i64_checked(to_i64(self) + to_i64(other))

checked_add(self, other) ==
    IF self.t = "Float" THEN Some(f64_add(self, to_f64(other)))
    ELSE IF other.t = "Float" THEN Some(f64_add(to_f64(self), other))
    ELSE i64_checked(to_i64(self) + to_i64(other))

checked_sub(self, other) ==
    IF self.t = "Float" THEN Some(f64_sub(self, to_f64(other)))
    ELSE IF other.t = "Float" THEN Some(f64_sub(to_f64(self), other))
    ELSE i64_checked(to_i64(self) - to_i64(other))

checked_mul(self, other) ==
    IF self.t = "Float" THEN Some(f64_mul(self, to_f64(other)))
    ELSE IF other.t = "Float" THEN Some(f64_mul(to_f64(self), other))
    ELSE i64_checked(to_i64(self) * to_i64(other))

\* impl PartialEq for Val
val_eq(self, other) ==
    IF self.t = "Float" /\ other.t = "Float"
    THEN ~is_nan(self) /\ ~is_nan(other) /\ self.n = other.n /\ self.d = other.d
    ELSE IF self.t = "Float" \/ other.t = "Float" THEN FALSE
    ELSE to_i64(self) = to_i64(other)

(***************************************************************************)
(* stack.rs: ValStack.  A stack is [values, register]; register is an      *)
(* Option<Val>.  A Result<(), Error> is [ok, s] with s the stack after.    *)
(***************************************************************************)
ValStack_new == [values |-> <<>>, register |-> None]

ValStack_push(s, val) == [s EXCEPT !.values = Append(@, val)]

\* Vec::pop: Option<Val> and the stack after
ValStack_pop(s) ==
    IF Len(s.values) = 0
    THEN [val |-> None, s |-> s]
    ELSE [val |-> Some(s.values[Len(s.values)]),
          s |-> [s EXCEPT !.values = SubSeq(@, 1, Len(@) - 1)]]

\* dup that takes an empty stack as it is
dup_of_nothing(s) ==
    LET n == Len(s.values) IN
    IF n = 0 THEN [ok |-> TRUE, s |-> s]
    ELSE [ok |-> TRUE, s |-> [s EXCEPT !.values = Append(@, s.values[n])]]

dup(s) ==
    LET n == Len(s.values) IN
    IF n = 0 THEN [ok |-> FALSE, s |-> s]
    ELSE [ok |-> TRUE, s |-> [s EXCEPT !.values = Append(@, s.values[n])]]

drop(s) ==
    LET n == Len(s.values) IN
    IF n = 0 THEN [ok |-> FALSE, s |-> s]
    ELSE [ok |-> TRUE, s |-> [s EXCEPT !.values = SubSeq(@, 1, n - 1)]]

swap(s) ==
    LET n == Len(s.values) IN
    IF n >= 2
    THEN LET x == s.values[n]
             y == s.values[n - 1]
         IN  [ok |-> TRUE, s |-> [s EXCEPT !.values[n - 1] = x, !.values[n] = y]]
    ELSE [ok |-> FALSE, s |-> s]

\* swap2 that rotates the other way: [a, b, c] to [b, c, a]
swap2_other_way(s) ==
    LET n == Len(s.values) IN
    IF n >= 3
    THEN LET x == s.values[n - 2]
             y == s.values[n - 1]
             z == s.values[n]
         IN  [ok |-> TRUE,
              s |-> [s EXCEPT !.values[n - 2] = y, !.values[n - 1] = z, !.values[n] = x]]
    ELSE [ok |-> FALSE, s |-> s]

swap2(s) ==
    LET n == Len(s.values) IN
    IF n >= 3
    THEN LET x == s.values[n - 2]
             y == s.values[n - 1]
             z == s.values[n]
         IN  [ok |-> TRUE,
              s |-> [s EXCEPT !.values[n - 2] = z, !.values[n - 1] = x, !.values[n] = y]]
    ELSE [ok |-> FALSE, s |-> s]

\* rshift that moves the last two values to the front
rshift_by_two(s) ==
    LET n == Len(s.values) IN
    IF n <= 1 THEN s
    ELSE [s EXCEPT !.values = SubSeq(s.values, n - 1, n) \o SubSeq(s.values, 1, n - 2)]

\* drain(0..n-1) leaves the last value, then the drained ones are appended
rshift(s) ==
    LET n == Len(s.values) IN
    IF n <= 1 THEN s
    ELSE [s EXCEPT !.values = <<s.values[n]>> \o SubSeq(s.values, 1, n - 1)]

lshift(s) ==
    LET n == Len(s.values) IN
    IF n <= 1 THEN s
    ELSE [s EXCEPT !.values = SubSeq(s.values, 2, n) \o <<s.values[1]>>]

RECURSIVE Reverse(_)
Reverse(q) == IF Len(q) = 0 THEN <<>> ELSE Append(Reverse(Tail(q)), Head(q))

(***************************************************************************)
(* stack.rs: StackOfStacks.  stacks is a sequence of ValStack, the top is   *)
(* the last one.                                                            *)
(***************************************************************************)
StackOfStacks_new == <<ValStack_new>>

top(stacks) == stacks[Len(stacks)]

\* `v as usize` for an i64 v: a negative value wraps to a huge one
as_usize(v) == IF v < 0 THEN v + USIZE_MAX + 1 ELSE v

\* usize::checked_sub
usize_checked_sub(a, b) == IF a - b < 0 THEN None ELSE Some(a - b)

\* usize::checked_add
usize_checked_add(a, b) == IF a + b > USIZE_MAX THEN None ELSE Some(a + b)

\* push_stack whose new stack starts with the register of the one below
push_stack_inherits(stacks, moved_items) ==
    LET stack == top(stacks)
        at == usize_checked_sub(Len(stack.values), moved_items)
    IN  IF at = None THEN [ok |-> FALSE, stacks |-> stacks]
        ELSE LET v == at[1]
                 vals == SubSeq(stack.values, v + 1, Len(stack.values))
                 rest == [stack EXCEPT !.values = SubSeq(@, 1, v)]
             IN  [ok |-> TRUE,
                  stacks |-> Append([stacks EXCEPT ![Len(stacks)] = rest],
                                    [values |-> vals, register |-> stack.register])]

push_stack(stacks, moved_items) ==
    LET stack == top(stacks)
        at == usize_checked_sub(Len(stack.values), moved_items)
    IN  IF at = None THEN [ok |-> FALSE, stacks |-> stacks]
        ELSE LET v == at[1]
                 vals == SubSeq(stack.values, v + 1, Len(stack.values))
                 rest == [stack EXCEPT !.values = SubSeq(@, 1, v)]
             IN  [ok |-> TRUE,
                  stacks |-> Append([stacks EXCEPT ![Len(stacks)] = rest],
                                    [values |-> vals, register |-> None])]

\* pop_stack without the test on the number of stacks
pop_stack_always_pops(stacks) ==
    LET v == stacks[Len(stacks)].values
        below == SubSeq(stacks, 1, Len(stacks) - 1)
    IN  IF Len(below) = 0 THEN below
        ELSE [below EXCEPT ![Len(below)].values = @ \o v]

\* pop_stack that puts the values of the removed stack before those below
pop_stack_prepends(stacks) ==
    IF Len(stacks) > 1
    THEN LET v == stacks[Len(stacks)].values
             below == SubSeq(stacks, 1, Len(stacks) - 1)
         IN  [below EXCEPT ![Len(below)].values = v \o @]
    ELSE [stacks EXCEPT ![Len(stacks)] = [values |-> <<>>, register |-> None]]

\* pop_stack that hands the register of the removed stack to the one below
pop_stack_takes_register(stacks) ==
    IF Len(stacks) > 1
    THEN LET v == stacks[Len(stacks)].values
             below == SubSeq(stacks, 1, Len(stacks) - 1)
         IN  [below EXCEPT ![Len(below)].values = @ \o v,
                           ![Len(below)].register = stacks[Len(stacks)].register]
    ELSE [stacks EXCEPT ![Len(stacks)] = [values |-> <<>>, register |-> None]]

\* pop_stack that leaves the register of the last stack
pop_stack_keeps_register(stacks) ==
    IF Len(stacks) > 1
    THEN LET v == stacks[Len(stacks)].values
             below == SubSeq(stacks, 1, Len(stacks) - 1)
         IN  [below EXCEPT ![Len(below)].values = @ \o v]
    ELSE [stacks EXCEPT ![Len(stacks)].values = <<>>]

pop_stack(stacks) ==
    IF Len(stacks) > 1
    THEN LET v == stacks[Len(stacks)].values
             below == SubSeq(stacks, 1, Len(stacks) - 1)
         IN  [below EXCEPT ![Len(below)].values = @ \o v]
    ELSE [stacks EXCEPT ![Len(stacks)] = [values |-> <<>>, register |-> None]]

\* switch_register that pushes a full register without emptying it
switch_register_keeps(stacks) ==
    LET stack == top(stacks) IN
    IF stack.register = None
    THEN LET p == ValStack_pop(stack) IN
         IF p.val = None
         THEN [ok |-> FALSE, stacks |-> stacks]
         ELSE [ok |-> TRUE,
               stacks |-> [stacks EXCEPT ![Len(stacks)] = [p.s EXCEPT !.register = p.val]]]
    ELSE [ok |-> TRUE,
          stacks |-> [stacks EXCEPT ![Len(stacks)].values = Append(@, stack.register[1])]]

switch_register(stacks) ==
    LET stack == top(stacks) IN
    IF stack.register = None
    THEN LET p == ValStack_pop(stack) IN
         IF p.val = None
         THEN [ok |-> FALSE, stacks |-> stacks]
         ELSE [ok |-> TRUE,
               stacks |-> [stacks EXCEPT ![Len(stacks)] = [p.s EXCEPT !.register = p.val]]]
    ELSE [ok |-> TRUE,
          stacks |-> [stacks EXCEPT ![Len(stacks)] =
                         [values |-> Append(stack.values, stack.register[1]),
                          register |-> None]]]

(***************************************************************************)
(* fish.rs: CodeBox                                                        *)
(***************************************************************************)
Max(a, b) == IF a >= b THEN a ELSE b

CodeBox_push(cb, line) ==
    [data |-> Append(cb.data, line),
     height |-> cb.height + 1,
     width |-> Max(Len(line), cb.width)]

RECURSIVE CodeBox_load_from(_, _)
CodeBox_load_from(cb, lines) ==
    IF Len(lines) = 0 THEN cb
    ELSE CodeBox_load_from(CodeBox_push(cb, Head(lines)), Tail(lines))

\* lines: the program text already split at its line terminators
CodeBox_load(lines) ==
    CodeBox_load_from([data |-> <<>>, height |-> 0, width |-> 0], lines)

\* get that finds nothing past the end of a line
CodeBox_get_within_line(cb, x, y) ==
    IF x < cb.width /\ y < cb.height
    THEN IF y + 1 > Len(cb.data) THEN None
         ELSE LET line == cb.data[y + 1] IN
              IF x + 1 <= Len(line) THEN Some(line[x + 1]) ELSE None
    ELSE None

\* Option<u8>; x and y are usize
CodeBox_get(cb, x, y) ==
    IF x < cb.width /\ y < cb.height
    THEN IF y + 1 > Len(cb.data) THEN None
         ELSE LET line == cb.data[y + 1] IN
              IF x + 1 <= Len(line) THEN Some(line[x + 1]) ELSE Some(B(" "))
    ELSE None

(***************************************************************************)
(* fish.rs: Interpreter.  The operators below work on a record m of the     *)
(* interpreter's fields                                                     *)
(*   ip, dir, state, stack, memory, memory_is_dirty, input, output          *)
(* and return the record after the call.  A Result<RuntimeStatus> is        *)
(* [status, m]: status is "Continue", "Stop", one of RuntimeError, or       *)
(* "Panic" when the thread panics.                                          *)
(***************************************************************************)
Direction == {"Right", "Left", "Up", "Down"}

RuntimeError == {"InvalidInstruction", "InvalidIpPosition", "StackUnderflow",
                 "IntegerOverflow", "DivideByZero", "IOError"}

ParserState == {"Normal", "SingleQuoted", "DoubleQuoted"}

\* HashMap::new()
HashMap_new == [pos \in {} |-> Val_Byte(0)]

\* HashMap::insert
HashMap_insert(map, pos, v) ==
    [q \in (DOMAIN map) \cup {pos} |-> IF q = pos THEN v ELSE map[q]]

\* HashMap::get
HashMap_get(map, pos) == IF pos \in DOMAIN map THEN Some(map[pos]) ELSE None

MemPos(x, y) == <<x, y>>

\* `u as i64` for a usize u
as_i64(u) == IF u > I64_MAX THEN u - USIZE_MAX - 1 ELSE u

Continue(m) == [status |-> "Continue", m |-> m]

Err(m, e) == [status |-> e, m |-> m]

\* a push that goes to the first stack, not the top one
top_mut_push_first(m, v) == [m EXCEPT !.stack[1] = ValStack_push(@, v)]

top_mut_push(m, v) == [m EXCEPT !.stack[Len(m.stack)] = ValStack_push(@, v)]

\* Interpreter::pop: [val, m], val = None stands for Err(StackUnderflow)
pop(m) ==
    LET p == ValStack_pop(top(m.stack)) IN
    [val |-> p.val, m |-> [m EXCEPT !.stack[Len(m.stack)] = p.s]]

\* reset that also clears the dirty flag
reset_clears_dirty(m) ==
    [m EXCEPT !.ip = [chr |-> 0, line |-> 0], !.dir = "Right", !.state = "Normal",
              !.memory_is_dirty = FALSE]

\* reset that forgets the parser state
reset_keeps_state(m) ==
    [m EXCEPT !.ip = [chr |-> 0, line |-> 0], !.dir = "Right"]

\* reset that also starts from fresh stacks
reset_clears_stack(m) ==
    [m EXCEPT !.ip = [chr |-> 0, line |-> 0], !.dir = "Right", !.state = "Normal",
              !.stack = StackOfStacks_new]

reset(m) ==
    [m EXCEPT !.ip = [chr |-> 0, line |-> 0], !.dir = "Right", !.state = "Normal"]

\* fetch that finds nothing where the grid has no cell
fetch_checks_grid(m, code) ==
    LET pos == MemPos(as_i64(m.ip.chr), as_i64(m.ip.line))
        v == IF m.memory_is_dirty THEN HashMap_get(m.memory, pos) ELSE None
        b == CodeBox_get(code, m.ip.chr, m.ip.line)
    IN  IF b = None THEN None
        ELSE IF v # None THEN Some(to_u8(v[1])) ELSE b

\* fetch that reads the grid first and the overlay only outside the grid
fetch_grid_first(m, code) ==
    LET pos == MemPos(as_i64(m.ip.chr), as_i64(m.ip.line))
        v == IF m.memory_is_dirty THEN HashMap_get(m.memory, pos) ELSE None
        b == CodeBox_get(code, m.ip.chr, m.ip.line)
    IN  IF b # None THEN b
        ELSE IF v # None THEN Some(to_u8(v[1])) ELSE None

fetch(m, code) ==
    LET pos == MemPos(as_i64(m.ip.chr), as_i64(m.ip.line))
        v == IF m.memory_is_dirty THEN HashMap_get(m.memory, pos) ELSE None
    IN  IF v # None THEN Some(to_u8(v[1]))
        ELSE CodeBox_get(code, m.ip.chr, m.ip.line)

\* The JSON record dump_state writes to stderr; nothing for a space
dump_state(m, instruction) ==
    IF instruction = B(" ") THEN <<>>
    ELSE << [ip |-> <<m.ip.chr, m.ip.line>>,
             dir |-> m.dir,
             next_instr |-> instruction,
             stack |-> top(m.stack).values,
             register |-> top(m.stack).register] >>

\* writeln!(stderr(), ..).expect(..): dump_state panics when the write of the
\* record fails (written = FALSE)
dump_state_panics(instruction, written) == instruction # B(" ") /\ ~written

\* `code.width - 1` and `code.height - 1` are evaluated before unwrap_or;
\* with a zero dimension the subtraction overflows: a panic when the build
\* checks overflow (oc), a wrap to usize::MAX otherwise.
advance_panics(dir, code, oc) ==
    oc /\ ((dir = "Left" /\ code.width = 0) \/ (dir = "Up" /\ code.height = 0))

usize_wrapping_dec(a) == IF a = 0 THEN USIZE_MAX ELSE a - 1

\* advance without the two final normalisations
advance_unnormalized(ip, dir, code) ==
    CASE dir = "Right" ->
           LET r == usize_checked_add(ip.chr, 1) IN
           [ip EXCEPT !.chr = IF r = None THEN 0 ELSE r[1]]
      [] dir = "Left" ->
           LET r == usize_checked_sub(ip.chr, 1) IN
           [ip EXCEPT !.chr = IF r = None THEN usize_wrapping_dec(code.width) ELSE r[1]]
      [] dir = "Up" ->
           LET r == usize_checked_sub(ip.line, 1) IN
           [ip EXCEPT !.line = IF r = None THEN usize_wrapping_dec(code.height) ELSE r[1]]
      [] dir = "Down" ->
           LET r == usize_checked_add(ip.line, 1) IN
           [ip EXCEPT !.line = IF r = None THEN 0 ELSE r[1]]

\* advance whose Left and Up fall back to 0 instead of the last column / line
advance_underflow_to_zero(ip, dir, code) ==
    LET moved ==
            CASE dir = "Right" ->
                   LET r == usize_checked_add(ip.chr, 1) IN
                   [ip EXCEPT !.chr = IF r = None THEN 0 ELSE r[1]]
              [] dir = "Left" ->
                   LET r == usize_checked_sub(ip.chr, 1) IN
                   [ip EXCEPT !.chr = IF r = None THEN 0 ELSE r[1]]
              [] dir = "Up" ->
                   LET r == usize_checked_sub(ip.line, 1) IN
                   [ip EXCEPT !.line = IF r = None THEN 0 ELSE r[1]]
              [] dir = "Down" ->
                   LET r == usize_checked_add(ip.line, 1) IN
                   [ip EXCEPT !.line = IF r = None THEN 0 ELSE r[1]]
    IN  [chr |-> IF moved.chr >= code.width THEN 0 ELSE moved.chr,
         line |-> IF moved.line >= code.height THEN 0 ELSE moved.line]

advance(ip, dir, code) ==
    LET moved ==
            CASE dir = "Right" ->
                   LET r == usize_checked_add(ip.chr, 1) IN
                   [ip EXCEPT !.chr = IF r = None THEN 0 ELSE r[1]]
              [] dir = "Left" ->
                   LET r == usize_checked_sub(ip.chr, 1) IN
                   [ip EXCEPT !.chr = IF r = None THEN usize_wrapping_dec(code.width) ELSE r[1]]
              [] dir = "Up" ->
                   LET r == usize_checked_sub(ip.line, 1) IN
                   [ip EXCEPT !.line = IF r = None THEN usize_wrapping_dec(code.height) ELSE r[1]]
              [] dir = "Down" ->
                   LET r == usize_checked_add(ip.line, 1) IN
                   [ip EXCEPT !.line = IF r = None THEN 0 ELSE r[1]]
    IN  [chr |-> IF moved.chr >= code.width THEN 0 ELSE moved.chr,
         line |-> IF moved.line >= code.height THEN 0 ELSE moved.line]

\* mirror with the tables of `/` and `\` exchanged
mirror_exchanged(dir, instruction) ==
    CASE instruction = B("\\") ->
           (CASE dir = "Right" -> "Up" [] dir = "Left" -> "Down"
              [] dir = "Up" -> "Right" [] dir = "Down" -> "Left")
      [] instruction = B("/") ->
           (CASE dir = "Right" -> "Down" [] dir = "Left" -> "Up"
              [] dir = "Up" -> "Left" [] dir = "Down" -> "Right")
      [] instruction = B("|") ->
           (CASE dir = "Right" -> "Left" [] dir = "Left" -> "Right"
              [] dir = "Up" -> "Up" [] dir = "Down" -> "Down")
      [] instruction = B("_") ->
           (CASE dir = "Right" -> "Right" [] dir = "Left" -> "Left"
              [] dir = "Up" -> "Down" [] dir = "Down" -> "Up")
      [] instruction = B("#") ->
           (CASE dir = "Right" -> "Left" [] dir = "Left" -> "Right"
              [] dir = "Up" -> "Down" [] dir = "Down" -> "Up")
      [] OTHER -> dir

mirror(dir, instruction) ==
    CASE instruction = B("/") ->
           (CASE dir = "Right" -> "Up" [] dir = "Left" -> "Down"
              [] dir = "Up" -> "Right" [] dir = "Down" -> "Left")
      [] instruction = B("\\") ->
           (CASE dir = "Right" -> "Down" [] dir = "Left" -> "Up"
              [] dir = "Up" -> "Left" [] dir = "Down" -> "Right")
      [] instruction = B("|") ->
           (CASE dir = "Right" -> "Left" [] dir = "Left" -> "Right"
              [] dir = "Up" -> "Up" [] dir = "Down" -> "Down")
      [] instruction = B("_") ->
           (CASE dir = "Right" -> "Right" [] dir = "Left" -> "Left"
              [] dir = "Up" -> "Down" [] dir = "Down" -> "Up")
      [] instruction = B("#") ->
           (CASE dir = "Right" -> "Left" [] dir = "Left" -> "Right"
              [] dir = "Up" -> "Down" [] dir = "Down" -> "Up")
      [] OTHER -> dir

\* jump that pops x first and y second
jump_pops_x_first(m, code) ==
    LET px == pop(m) IN
    IF px.val = None THEN Err(px.m, "StackUnderflow") ELSE
    LET py == pop(px.m) IN
    IF py.val = None THEN Err(py.m, "StackUnderflow") ELSE
    LET y == to_i64(py.val[1])
        x == to_i64(px.val[1])
    IN  IF x < 0 \/ y < 0 THEN Err(py.m, "InvalidIpPosition")
        ELSE Continue([py.m EXCEPT
                 !.ip = [chr |-> IF as_usize(x) >= code.width THEN 0 ELSE as_usize(x),
                         line |-> IF as_usize(y) >= code.height THEN 0 ELSE as_usize(y)]])

\* jump that normalises with `%=`
jump_modulo(m, code) ==
    LET py == pop(m) IN
    IF py.val = None THEN Err(py.m, "StackUnderflow") ELSE
    LET px == pop(py.m) IN
    IF px.val = None THEN Err(px.m, "StackUnderflow") ELSE
    LET y == to_i64(py.val[1])
        x == to_i64(px.val[1])
    IN  IF x < 0 \/ y < 0 THEN Err(px.m, "InvalidIpPosition")
        ELSE Continue([px.m EXCEPT
                 !.ip = [chr |-> IF code.width = 0 THEN 0 ELSE as_usize(x) % code.width,
                         line |-> IF code.height = 0 THEN 0 ELSE as_usize(y) % code.height]])

jump(m, code) ==
    LET py == pop(m) IN
    IF py.val = None THEN Err(py.m, "StackUnderflow") ELSE
    LET px == pop(py.m) IN
    IF px.val = None THEN Err(px.m, "StackUnderflow") ELSE
    LET y == to_i64(py.val[1])
        x == to_i64(px.val[1])
    IN  IF x < 0 \/ y < 0 THEN Err(px.m, "InvalidIpPosition")
        ELSE Continue([px.m EXCEPT
                 !.ip = [chr |-> IF as_usize(x) >= code.width THEN 0 ELSE as_usize(x),
                         line |-> IF as_usize(y) >= code.height THEN 0 ELSE as_usize(y)]])

\* The shape shared by add, sub, mul: pop x, pop y, push op(y, x)
checked_binop(m, op) ==
    LET px == pop(m) IN
    IF px.val = None THEN Err(px.m, "StackUnderflow") ELSE
    LET py == pop(px.m) IN
    IF py.val = None THEN Err(py.m, "StackUnderflow") ELSE
    LET res == CASE op = "add" -> checked_add(py.val[1], px.val[1])
                 [] op = "sub" -> checked_sub(py.val[1], px.val[1])
                 [] op = "mul" -> checked_mul(py.val[1], px.val[1])
    IN  IF res = None THEN Err(py.m, "IntegerOverflow")
        ELSE Continue(top_mut_push(py.m, res[1]))

add(m) == checked_binop(m, "add")

sub(m) == checked_binop(m, "sub")

mul(m) == checked_binop(m, "mul")

div(m) ==
    LET px == pop(m) IN
    IF px.val = None THEN Err(px.m, "StackUnderflow") ELSE
    LET py == pop(px.m) IN
    IF py.val = None THEN Err(py.m, "StackUnderflow") ELSE
    LET res == f64_div(to_f64(py.val[1]), to_f64(px.val[1])) IN
    IF is_infinite(res) THEN Err(py.m, "DivideByZero")
    ELSE Continue(top_mut_push(py.m, res))

\* the i64 `%` of Rust: the remainder has the sign of the dividend
i64_rem(y, x) == IF y < 0 THEN -((-y) % Abs(x)) ELSE y % Abs(x)

\* i64::MIN % -1 panics ("attempt to calculate the remainder with overflow")
i64_rem_panics(y, x) == y = I64_MIN /\ x = -1

rem(m) ==
    LET px == pop(m) IN
    IF px.val = None THEN Err(px.m, "StackUnderflow") ELSE
    LET py == pop(px.m) IN
    IF py.val = None THEN Err(py.m, "StackUnderflow") ELSE
    LET x == to_i64(px.val[1])
        y == to_i64(py.val[1])
    IN  IF x = 0 THEN Err(py.m, "DivideByZero")
        ELSE IF i64_rem_panics(y, x) THEN Err(py.m, "Panic")
        ELSE LET r == i64_rem(y, x)
                 sum == i64_checked(r + x)
             IN  IF sum = None THEN Err(py.m, "IntegerOverflow")
                 ELSE IF i64_rem_panics(sum[1].n, x) THEN Err(py.m, "Panic")
                 ELSE Continue(top_mut_push(py.m, Val_Int(i64_rem(sum[1].n, x))))

\* The shape shared by equals, gt, lt
compare(m, op) ==
    LET px == pop(m) IN
    IF px.val = None THEN Err(px.m, "StackUnderflow") ELSE
    LET py == pop(px.m) IN
    IF py.val = None THEN Err(py.m, "StackUnderflow") ELSE
    LET x == to_i64(px.val[1])
        y == to_i64(py.val[1])
        res == CASE op = "equals" -> y = x
                 [] op = "gt" -> y > x
                 [] op = "lt" -> y < x
    IN  Continue(top_mut_push(py.m, Val_Byte(IF res THEN 1 ELSE 0)))

equals(m) == compare(m, "equals")

gt(m) == compare(m, "gt")

lt(m) == compare(m, "lt")

\* write!("{}", c) for a char c < 256: its UTF-8 encoding
utf8(c) == IF c < 128 THEN <<c>> ELSE <<192 + (c \div 64), 128 + (c % 64)>>

RECURSIVE digits(_)
digits(k) == IF k < 10 THEN <<B("0") + k>> ELSE Append(digits(k \div 10), B("0") + (k % 10))

\* write!("{}", i) for an i64
fmt_i64(i) == IF i < 0 THEN <<B("-")>> \o digits(-i) ELSE digits(i)

FracDigits == 4

RECURSIVE frac_digits(_, _, _)
frac_digits(r, d, k) ==
    IF r = 0 \/ k = 0 THEN <<>>
    ELSE <<B("0") + ((r * 10) \div d)>> \o frac_digits((r * 10) % d, d, k - 1)

\* write!("{}", f) for an f64: "inf", "-inf", "NaN", or the decimal form
\* (the fraction is cut after FracDigits digits in this model)
fmt_f64(f) ==
    IF is_nan(f) THEN <<78, 97, 78>>
    ELSE IF f.d = 0 THEN (IF f.n > 0 THEN <<>> ELSE <<B("-")>>) \o <<B("i"), B("n"), B("f")>>
    ELSE LET a == Abs(f.n)
             whole == (IF f.n < 0 THEN <<B("-")>> ELSE <<>>) \o digits(a \div f.d)
         IN  IF a % f.d = 0 THEN whole
             ELSE whole \o <<B(".")>> \o frac_digits(a % f.d, f.d, FracDigits)

\* write_ok: whether the write to the output sink succeeds
char_output(m, write_ok) ==
    LET p == pop(m) IN
    IF p.val = None THEN Err(p.m, "StackUnderflow")
    ELSE IF ~write_ok THEN Err(p.m, "IOError")
    ELSE Continue([p.m EXCEPT !.output = @ \o utf8(to_u8(p.val[1]))])

num_output(m, write_ok) ==
    LET p == pop(m) IN
    IF p.val = None THEN Err(p.m, "StackUnderflow")
    ELSE IF ~write_ok THEN Err(p.m, "IOError")
    ELSE IF p.val[1].t = "Float"
         THEN Continue([p.m EXCEPT !.output = @ \o fmt_f64(p.val[1])])
         ELSE Continue([p.m EXCEPT !.output = @ \o fmt_i64(to_i64(p.val[1]))])

\* an item of the input stream is a byte, or ReadError for Some(Err(_))
ReadError == -1

\* input that reads the next byte and leaves it in the stream
input_next_peeks(m) ==
    IF Len(m.input) = 0 THEN Continue(top_mut_push(m, Val_Int(-1)))
    ELSE IF Head(m.input) = ReadError THEN Err(m, "IOError")
    ELSE Continue(top_mut_push(m, Val_Byte(Head(m.input))))

input_next(m) ==
    IF Len(m.input) = 0 THEN Continue(top_mut_push(m, Val_Int(-1)))
    ELSE IF Head(m.input) = ReadError THEN Err([m EXCEPT !.input = Tail(@)], "IOError")
    ELSE Continue(top_mut_push([m EXCEPT !.input = Tail(@)], Val_Byte(Head(m.input))))

\* get_memory that reads the grid only
get_memory_grid_only(m, code, x, y) ==
    LET b == CodeBox_get(code, as_usize(x), as_usize(y)) IN
    Val_Byte(IF b = None \/ b = Some(B(" ")) THEN 0 ELSE b[1])

\* get_memory that maps only an absent cell to 0, not a space
get_memory_keeps_space(m, code, x, y) ==
    LET v == IF m.memory_is_dirty THEN HashMap_get(m.memory, MemPos(x, y)) ELSE None IN
    IF v # None THEN v[1]
    ELSE LET b == CodeBox_get(code, as_usize(x), as_usize(y)) IN
         Val_Byte(IF b = None THEN 0 ELSE b[1])

get_memory(m, code, x, y) ==
    LET v == IF m.memory_is_dirty THEN HashMap_get(m.memory, MemPos(x, y)) ELSE None IN
    IF v # None THEN v[1]
    ELSE LET b == CodeBox_get(code, as_usize(x), as_usize(y)) IN
         Val_Byte(IF b = None \/ b = Some(B(" ")) THEN 0 ELSE b[1])

read_memory(m, code) ==
    LET py == pop(m) IN
    IF py.val = None THEN Err(py.m, "StackUnderflow") ELSE
    LET px == pop(py.m) IN
    IF px.val = None THEN Err(px.m, "StackUnderflow") ELSE
    LET y == to_i64(py.val[1])
        x == to_i64(px.val[1])
    IN  Continue(top_mut_push(px.m, get_memory(px.m, code, x, y)))

\* write_memory without the comparison with the current value
write_memory_always(m, code) ==
    LET py == pop(m) IN
    IF py.val = None THEN Err(py.m, "StackUnderflow") ELSE
    LET px == pop(py.m) IN
    IF px.val = None THEN Err(px.m, "StackUnderflow") ELSE
    LET pv == pop(px.m) IN
    IF pv.val = None THEN Err(pv.m, "StackUnderflow") ELSE
    LET y == to_i64(py.val[1])
        x == to_i64(px.val[1])
        v == pv.val[1]
    IN  Continue([pv.m EXCEPT !.memory = HashMap_insert(@, MemPos(x, y), v),
                              !.memory_is_dirty = TRUE])

write_memory(m, code) ==
    LET py == pop(m) IN
    IF py.val = None THEN Err(py.m, "StackUnderflow") ELSE
    LET px == pop(py.m) IN
    IF px.val = None THEN Err(px.m, "StackUnderflow") ELSE
    LET pv == pop(px.m) IN
    IF pv.val = None THEN Err(pv.m, "StackUnderflow") ELSE
    LET y == to_i64(py.val[1])
        x == to_i64(px.val[1])
        v == pv.val[1]
        val == get_memory(pv.m, code, x, y)
    IN  IF ~val_eq(v, val)
        THEN Continue([pv.m EXCEPT !.memory = HashMap_insert(@, MemPos(x, y), v),
                                   !.memory_is_dirty = TRUE])
        ELSE Continue(pv.m)

\* advance called from inside an instruction (`!`, `?`)
\* a trampoline that leaves the IP where it is
skip_not(m, code, oc) == Continue(m)

skip(m, code, oc) ==
    IF advance_panics(m.dir, code, oc) THEN Err(m, "Panic")
    ELSE Continue([m EXCEPT !.ip = advance(m.ip, m.dir, code)])

\* on_top that loses the values of the top stack when the operation fails
on_top_clears(m, r) ==
    IF r.ok THEN Continue([m EXCEPT !.stack[Len(m.stack)] = r.s])
    ELSE Err([m EXCEPT !.stack[Len(m.stack)].values = <<>>], "StackUnderflow")

\* the result of a ValStack operation on the top stack, as a Result
on_top(m, r) ==
    IF r.ok THEN Continue([m EXCEPT !.stack[Len(m.stack)] = r.s])
    ELSE Err(m, "StackUnderflow")

\* char::to_digit(16) for '0'..='9' | 'a'..='f'
to_digit(instruction) ==
    IF instruction <= B("9") THEN instruction - B("0") ELSE instruction - B("a") + 10

\* env = [rnd, oc, write_ok]: the direction drawn by the rng, whether the
\* build checks arithmetic overflow, whether the output sink accepts a write
execute_instruction(m, instruction, code, env) ==
    CASE instruction = B("'") -> Continue([m EXCEPT !.state = "SingleQuoted"])
      [] instruction = B("\"") -> Continue([m EXCEPT !.state = "DoubleQuoted"])
      [] instruction = B(">") -> Continue([m EXCEPT !.dir = "Right"])
      [] instruction = B("<") -> Continue([m EXCEPT !.dir = "Left"])
      [] instruction = B("^") -> Continue([m EXCEPT !.dir = "Up"])
      [] instruction = B("v") -> Continue([m EXCEPT !.dir = "Down"])
      [] instruction \in {B("/"), B("\\"), B("|"), B("_"), B("#")} ->
           Continue([m EXCEPT !.dir = mirror(m.dir, instruction)])
      [] instruction = B("x") -> Continue([m EXCEPT !.dir = env.rnd])
      [] instruction = B("!") -> skip(m, code, env.oc)
      [] instruction = B("?") ->
           LET p == ValStack_pop(top(m.stack))
               m1 == [m EXCEPT !.stack[Len(m.stack)] = p.s]
           IN  IF p.val = None THEN Err(m, "StackUnderflow")
               ELSE IF to_i64(p.val[1]) = 0 THEN skip(m1, code, env.oc)
               ELSE Continue(m1)
      [] instruction = B(".") -> jump(m, code)
      [] (instruction >= B("0") /\ instruction <= B("9"))
         \/ (instruction >= B("a") /\ instruction <= B("f")) ->
           Continue(top_mut_push(m, Val_Byte(to_digit(instruction))))
      [] instruction = B("+") -> add(m)
      [] instruction = B("-") -> sub(m)
      [] instruction = B("*") -> mul(m)
      [] instruction = B(",") -> div(m)
      [] instruction = B("%") -> rem(m)
      [] instruction = B("=") -> equals(m)
      [] instruction = B(")") -> gt(m)
      [] instruction = B("(") -> lt(m)
      [] instruction = B(":") -> on_top(m, dup(top(m.stack)))
      [] instruction = B("~") -> on_top(m, drop(top(m.stack)))
      [] instruction = B("$") -> on_top(m, swap(top(m.stack)))
      [] instruction = B("@") -> on_top(m, swap2(top(m.stack)))
      [] instruction = B("}") -> Continue([m EXCEPT !.stack[Len(m.stack)] = rshift(@)])
      [] instruction = B("{") -> Continue([m EXCEPT !.stack[Len(m.stack)] = lshift(@)])
      [] instruction = B("r") ->
           Continue([m EXCEPT !.stack[Len(m.stack)].values = Reverse(@)])
      [] instruction = B("l") ->
           Continue(top_mut_push(m, Val_Int(as_i64(Len(top(m.stack).values)))))
      [] instruction = B("[") ->
           LET p == pop(m) IN
           IF p.val = None THEN Err(p.m, "StackUnderflow")
           ELSE LET r == push_stack(p.m.stack, as_usize(to_i64(p.val[1]))) IN
                IF r.ok THEN Continue([p.m EXCEPT !.stack = r.stacks])
                ELSE Err(p.m, "StackUnderflow")
      [] instruction = B("]") -> Continue([m EXCEPT !.stack = pop_stack(@)])
      [] instruction = B("o") -> char_output(m, env.write_ok)
      [] instruction = B("n") -> num_output(m, env.write_ok)
      [] instruction = B("i") -> input_next(m)
      [] instruction = B("&") ->
           LET r == switch_register(m.stack) IN
           IF r.ok THEN Continue([m EXCEPT !.stack = r.stacks])
           ELSE Err(m, "StackUnderflow")
      [] instruction = B("g") -> read_memory(m, code)
      [] instruction = B("p") -> write_memory(m, code)
      [] instruction = B(";") -> [status |-> "Stop", m |-> m]
      [] instruction = B(" ") -> Continue(m)
      [] OTHER -> Err(m, "InvalidInstruction")

\* execute that dispatches every byte as an opcode, whatever the parser state
execute_ignores_state(m, instruction, code, env) ==
    execute_instruction(m, instruction, code, env)

\* execute where either quote closes either kind of string
execute_any_quote_closes(m, instruction, code, env) ==
    CASE m.state = "Normal" -> execute_instruction(m, instruction, code, env)
      [] OTHER ->
           IF instruction \in {B("'"), B("\"")} THEN Continue([m EXCEPT !.state = "Normal"])
           ELSE Continue(top_mut_push(m, Val_Byte(instruction)))

\* execute followed by an advance when the instruction stops the run
execute_stop_advances(m, instruction, code, env) ==
    LET r == CASE m.state = "Normal" -> execute_instruction(m, instruction, code, env)
               [] m.state = "SingleQuoted" ->
                    IF instruction = B("'") THEN Continue([m EXCEPT !.state = "Normal"])
                    ELSE Continue(top_mut_push(m, Val_Byte(instruction)))
               [] m.state = "DoubleQuoted" ->
                    IF instruction = B("\"") THEN Continue([m EXCEPT !.state = "Normal"])
                    ELSE Continue(top_mut_push(m, Val_Byte(instruction)))
    IN  IF r.status = "Stop" /\ code.width > 0 /\ code.height > 0
        THEN [status |-> "Stop", m |-> [r.m EXCEPT !.ip = advance(@, m.dir, code)]]
        ELSE r

\* execute that takes a byte that is no opcode as a no-op
execute_nop_invalid(m, instruction, code, env) ==
    CASE m.state = "Normal" ->
           LET r == execute_instruction(m, instruction, code, env) IN
           IF r.status = "InvalidInstruction" THEN Continue(m) ELSE r
      [] m.state = "SingleQuoted" ->
           IF instruction = B("'") THEN Continue([m EXCEPT !.state = "Normal"])
           ELSE Continue(top_mut_push(m, Val_Byte(instruction)))
      [] m.state = "DoubleQuoted" ->
           IF instruction = B("\"") THEN Continue([m EXCEPT !.state = "Normal"])
           ELSE Continue(top_mut_push(m, Val_Byte(instruction)))

execute(m, instruction, code, env) ==
    CASE m.state = "Normal" -> execute_instruction(m, instruction, code, env)
      [] m.state = "SingleQuoted" ->
           IF instruction = B("'") THEN Continue([m EXCEPT !.state = "Normal"])
           ELSE Continue(top_mut_push(m, Val_Byte(instruction)))
      [] m.state = "DoubleQuoted" ->
           IF instruction = B("\"") THEN Continue([m EXCEPT !.state = "Normal"])
           ELSE Continue(top_mut_push(m, Val_Byte(instruction)))

(***************************************************************************)
(* Programs and inputs the interpreter is run on                           *)
(***************************************************************************)
\* a line of program text, given as its characters
L(chars) == [i \in 1..Len(chars) |-> B(chars[i])]

\* ";"
P_end == CodeBox_load(<< L(<<";">>) >>)

\* "": no line at all
P_empty == CodeBox_load(<< >>)

\* three empty lines: height 3, width 0
P_blank == CodeBox_load(<< <<>>, <<>>, <<>> >>)

\* "z": an invalid opcode
P_invalid == CodeBox_load(<< L(<<"z">>) >>)

\* "11.;" / "  5;" (jump_works)
P_jump == CodeBox_load(<< L(<<"1", "1", ".", ";">>), L(<<" ", " ", "5", ";">>) >>)

\* a random direction, then a jump to the coordinates pushed before the run
P_xjump == CodeBox_load(<< L(<<"x", ".", ".">>), L(<<".", ";">>) >>)

\* a jump as the first instruction of a 4 x 3 grid
P_dot == CodeBox_load(<< L(<<".", "1", ";", ";">>), L(<<"2", "3", ";">>), L(<<";">>) >>)

\* quoted strings holding the other quote, `;`, an invalid opcode and a mirror
P_squote == CodeBox_load(<< L(<<"'", "\"", ";", "z", "/", "'", ";">>) >>)

P_dquote == CodeBox_load(<< L(<<"\"", "'", ";", " ", "A", "\"", ";">>) >>)

\* a string that is never closed on its line
P_openquote == CodeBox_load(<< L(<<"'", "a">>) >>)

\* `]` executed more often than `[`
P_stacks == CodeBox_load(<< L(<<"1", "1", "2", "[", "3", "]", "]", "]", ";">>) >>)

P_nested == CodeBox_load(<< L(<<"0", "[", "0", "[", "&", "]", "]", ";">>) >>)

\* trampolines
P_skip == CodeBox_load(<< L(<<"0", "?", "z", "5", "?", "!", "z", ";">>) >>)

\* "v" / "!" / ";" / "_" (mirror_down_to_up_works)
P_mirror == CodeBox_load(<< L(<<"v">>), L(<<"!">>), L(<<";">>), L(<<"_">>) >>)

\* leaves a value and a register, and writes `v` at (0,0) and `'` at (0,1)
\* of the overlay
P_poke == CodeBox_load(<< L(<<"7", "&", "6", "\"", "v", "\"", "0", "0", "p",
                              "\"", "'", "\"", "0", "1", "p", ";">>) >>)

\* `p` writes Int(315) over its own cell, (7,0); 315 as u8 is 59, `;`: after
\* the wrap the line runs again and the cell of `p` now stops the run
P_coerce == CodeBox_load(<< L(<<"f", "f", "6", "+", "*", "7", "0", "p">>) >>)

\* writes 1 at (0,0), reads it back, writes it again, then writes 0 outside
\* the grid, where 0 is what is read
P_repeat == CodeBox_load(<< L(<<"1", "0", "0", "p", "0", "0", "g", "0", "0", "p",
                                "0", "a", "a", "p", ";">>) >>)

\* writes the second value from the top at (top, 0), then reads (-1, 0)
P_hostpoke == CodeBox_load(<< L(<<"0", "p", "0", "1", "-", "0", "g", ";">>) >>)

\* writes Float(0) twice at (10,10), outside the grid, and reads it back
P_floatpoke == CodeBox_load(<< L(<<"0", "2", ",", ":", "a", "a", "p", "a", "a", "p",
                                   "a", "a", "g", ";">>) >>)

\* "599p 99g;" (write_memory_works)
P_write == CodeBox_load(<< L(<<"5", "9", "9", "p", " ", "9", "9", "g", ";">>) >>)

\* "g ;7" / "6": reads the cell whose coordinates were pushed before the run;
\* the second line is shorter than the first
P_peek == CodeBox_load(<< L(<<"g", " ", ";", "7">>), L(<<"6">>) >>)

Programs == {P_end, P_empty, P_blank, P_invalid, P_jump, P_xjump, P_dot,
             P_squote, P_dquote, P_openquote, P_stacks, P_nested, P_skip,
             P_mirror, P_poke, P_coerce, P_repeat, P_hostpoke, P_floatpoke,
             P_write, P_peek}

\* the programs a host runs after the first run
Reruns == {P_end, P_blank, P_dot}

\* values a host pushes with push_i64 before the first run
PushInts == {-1, 0, 1, 4}

\* strings a host pushes with push_str before the first run
PushStrs == { L(<<"a">>) }

\* input streams
Inputs == { <<>> }

(***************************************************************************)
(* The state machine                                                       *)
(***************************************************************************)
VARIABLES
    code,             \* the CodeBox of the current (or last) run
    ip, dir, stack, memory, trace, input, output, state, memory_is_dirty,
    stderr,           \* the records dump_state has written
    pc,               \* "idle", or the position inside the loop of `run`
    instruction,      \* the local `instruction` of `run`
    result,           \* what the last `run` returned, "none" while it runs
    runs,             \* the number of calls of `run`
    left,             \* what the previous run left behind, at its return
    poked,            \* per cell, the value the last `p` of this run was given
    hist,             \* what the last MaxHist executed instructions of this run saw
    stdin             \* the whole input stream the interpreter was built with

vars == <<code, ip, dir, stack, memory, trace, input, output, state,
          memory_is_dirty, stderr, pc, instruction, result, runs, left, poked,
          hist, stdin>>

\* the interpreter's fields as one record
Self == [ip |-> ip, dir |-> dir, state |-> state, stack |-> stack,
         memory |-> memory, memory_is_dirty |-> memory_is_dirty,
         input |-> input, output |-> output]

\* assigns the fields of the record m
Becomes(m) ==
    /\ ip' = m.ip
    /\ dir' = m.dir
    /\ state' = m.state
    /\ stack' = m.stack
    /\ memory' = m.memory
    /\ memory_is_dirty' = m.memory_is_dirty
    /\ input' = m.input
    /\ output' = m.output

RECURSIVE TotalVals(_)
TotalVals(stacks) ==
    IF Len(stacks) = 0 THEN 0 ELSE Len(Head(stacks).values) + TotalVals(Tail(stacks))

\* Interpreter::new
Init ==
    /\ code = P_empty
    /\ ip = [chr |-> 0, line |-> 0]
    /\ dir = "Right"
    /\ stack = StackOfStacks_new
    /\ memory = HashMap_new
    /\ trace = FALSE
    /\ input \in Inputs
    /\ output = <<>>
    /\ state = "Normal"
    /\ memory_is_dirty = FALSE
    /\ stderr = <<>>
    /\ pc = "idle"
    /\ instruction = 0
    /\ result = "none"
    /\ runs = 0
    /\ left = [ip |-> [chr |-> 0, line |-> 0], dir |-> "Right", state |-> "Normal"]
    /\ poked = HashMap_new
    /\ hist = <<>>
    /\ stdin = input

push_i64 ==
    /\ pc = "idle" /\ runs = 0
    /\ TotalVals(stack) < MaxPushed
    /\ \E v \in PushInts : stack' = [stack EXCEPT ![Len(stack)] = ValStack_push(@, Val_Int(v))]
    /\ UNCHANGED <<code, ip, dir, memory, trace, input, output, state,
                   memory_is_dirty, stderr, pc, instruction, result, runs, left, poked,
                   hist, stdin>>

push_str ==
    /\ pc = "idle" /\ runs = 0
    /\ \E s \in PushStrs :
          /\ TotalVals(stack) + Len(s) <= MaxPushed
          /\ stack' = [stack EXCEPT ![Len(stack)].values =
                          @ \o [i \in 1..Len(s) |-> Val_Byte(s[i])]]
    /\ UNCHANGED <<code, ip, dir, memory, trace, input, output, state,
                   memory_is_dirty, stderr, pc, instruction, result, runs, left, poked,
                   hist, stdin>>

\* run, up to the loop: reset
run ==
    /\ pc = "idle" /\ runs < MaxRuns
    /\ \E c \in (IF runs = 0 THEN Programs ELSE Reruns) : code' = c
    /\ Becomes(reset(Self))
    /\ pc' = "fetch"
    /\ result' = "none"
    /\ runs' = runs + 1
    /\ poked' = HashMap_new
    /\ hist' = <<>>
    /\ UNCHANGED <<trace, stderr, instruction, left, stdin>>

\* what a return of `run` leaves, for the next run
Leaves(m) == [ip |-> m.ip, dir |-> m.dir, state |-> m.state]

\* the loop of run: fetch, and the trace record
run_fetch ==
    /\ pc = "fetch"
    /\ trace => Len(stderr) < MaxTrace
    /\ LET f == fetch(Self, code) IN
       IF f = None
       THEN /\ result' = "InvalidIpPosition"
            /\ pc' = "idle"
            /\ left' = Leaves(Self)
            /\ UNCHANGED <<instruction, stderr>>
       ELSE /\ instruction' = f[1]
            /\ UNCHANGED <<result, left>>
            /\ \E written \in (IF trace /\ f[1] # B(" ") THEN BOOLEAN ELSE {TRUE}) :
                 IF trace /\ dump_state_panics(f[1], written)
                 THEN pc' = "panicked" /\ stderr' = stderr
                 ELSE /\ stderr' = IF trace THEN stderr \o dump_state(Self, f[1]) ELSE stderr
                      /\ pc' = "execute"
    /\ UNCHANGED <<code, ip, dir, stack, memory, trace, input, output, state,
                   memory_is_dirty, runs, poked, hist, stdin>>

\* what the instruction about to be executed sees
Seen == [ip |-> ip, dir |-> dir, state |-> state, instruction |-> instruction,
         stack |-> stack]

\* the last MaxHist records of h
Recent(h) == IF Len(h) > MaxHist THEN SubSeq(h, Len(h) - MaxHist + 1, Len(h)) ELSE h

\* the choices the environment makes for one instruction
Envs ==
    [rnd : IF instruction = B("x") THEN Direction ELSE {"Right"},
     oc : IF code.width = 0 \/ code.height = 0 THEN BOOLEAN ELSE {TRUE},
     write_ok : IF instruction \in {B("o"), B("n")} THEN BOOLEAN ELSE {TRUE}]

\* the loop of run: execute and the match on its result
run_execute ==
    /\ pc = "execute"
    /\ TotalVals(stack) < MaxVals
    /\ Len(stack) <= MaxStacks
    /\ Len(output) <= MaxOutput
    /\ \E env \in Envs :
         LET r == execute(Self, instruction, code, env) IN
         /\ Becomes(r.m)
         /\ pc' = CASE r.status = "Continue" -> "advance"
                    [] r.status = "Panic" -> "panicked"
                    [] OTHER -> "idle"
         /\ result' = CASE r.status = "Continue" -> result
                        [] r.status = "Panic" -> result
                        [] r.status = "Stop" -> "Ok"
                        [] OTHER -> r.status
         /\ left' = IF r.status \in {"Continue", "Panic"} THEN left ELSE Leaves(r.m)
         /\ poked' = IF state = "Normal" /\ instruction = B("p") /\ r.status = "Continue"
                      THEN LET vs == top(stack).values IN
                           HashMap_insert(poked, MemPos(to_i64(vs[Len(vs) - 1]),
                                                        to_i64(vs[Len(vs)])),
                                          vs[Len(vs) - 2])
                      ELSE poked
    /\ hist' = Recent(Append(hist, Seen))
    /\ UNCHANGED <<code, trace, stderr, instruction, runs, stdin>>

\* the loop of run, with no advance after a jump
run_advance_not_after_jump ==
    /\ pc = "advance"
    /\ \E oc \in (IF code.width = 0 \/ code.height = 0 THEN BOOLEAN ELSE {TRUE}) :
         IF advance_panics(dir, code, oc)
         THEN pc' = "panicked" /\ ip' = ip
         ELSE /\ pc' = "fetch"
              /\ ip' = IF instruction = B(".") /\ state = "Normal" THEN ip
                       ELSE advance(ip, dir, code)
    /\ UNCHANGED <<code, dir, stack, memory, trace, input, output, state,
                   memory_is_dirty, stderr, instruction, result, runs, left, poked,
                   hist, stdin>>

\* the loop of run: advance
run_advance ==
    /\ pc = "advance"
    /\ \E oc \in (IF code.width = 0 \/ code.height = 0 THEN BOOLEAN ELSE {TRUE}) :
         IF advance_panics(dir, code, oc)
         THEN pc' = "panicked" /\ ip' = ip
         ELSE pc' = "fetch" /\ ip' = advance(ip, dir, code)
    /\ UNCHANGED <<code, dir, stack, memory, trace, input, output, state,
                   memory_is_dirty, stderr, instruction, result, runs, left, poked,
                   hist, stdin>>

\* the host sets the public field `trace` before the first run
set_trace ==
    /\ pc = "idle" /\ runs = 0 /\ ~trace
    /\ trace' = TRUE
    /\ UNCHANGED <<code, ip, dir, stack, memory, input, output, state,
                   memory_is_dirty, stderr, pc, instruction, result, runs, left, poked,
                   hist, stdin>>

Next == push_i64 \/ push_str \/ set_trace \/ run \/ run_fetch \/ run_execute \/ run_advance

Spec == Init /\ [][Next]_vars

(***************************************************************************)
(* The arithmetic and comparison instructions, run on operands of every    *)
(* kind: the host pushes Ints (the extreme values included), the program   *)
(* supplies Bytes with digits and Floats with a division by 2.             *)
(***************************************************************************)
\* values a host pushes with push_i64 before an arithmetic program
MathInts == {I64_MIN, -13, -1, 0, 1, 13, I64_MAX}

\* what a program does to the pushed values a, b (b on top) before the
\* operator: the operands (y, x) become
\*   <<>>         (a, b)             1            (b, Byte(1))
\*   1 $          (Byte(1), b)       9 7          (Byte(9), Byte(7))
\*   0            (b, Byte(0))       2 ,          (a, Float(b/2))
\*   2 , $        (Float(b/2), a)    2 , :        (Float(b/2), Float(b/2))
MathPrefixes == { <<>>, <<"1">>, <<"1", "$">>, <<"9", "7">>, <<"0">>,
                  <<"2", ",">>, <<"2", ",", "$">>, <<"2", ",", ":">> }

MathOps == {"+", "-", "*", ",", "%", "=", ")", "("}

\* one line: the prefix, the operator, `;`
MathPrograms ==
    { CodeBox_load(<< L(pre \o <<op, ";">>) >>) : pre \in MathPrefixes, op \in MathOps }

push_i64_math ==
    /\ pc = "idle" /\ runs = 0
    /\ TotalVals(stack) < MaxPushed
    /\ \E v \in MathInts : stack' = [stack EXCEPT ![Len(stack)] = ValStack_push(@, Val_Int(v))]
    /\ UNCHANGED <<code, ip, dir, memory, trace, input, output, state,
                   memory_is_dirty, stderr, pc, instruction, result, runs, left, poked,
                   hist, stdin>>

run_math ==
    /\ pc = "idle" /\ runs = 0
    /\ \E c \in MathPrograms : code' = c
    /\ Becomes(reset(Self))
    /\ pc' = "fetch"
    /\ result' = "none"
    /\ runs' = runs + 1
    /\ poked' = HashMap_new
    /\ hist' = <<>>
    /\ UNCHANGED <<trace, stderr, instruction, left, stdin>>

NextMath ==
    push_i64_math \/ set_trace \/ run_math \/ run_fetch \/ run_execute \/ run_advance

SpecMath == Init /\ [][NextMath]_vars

(***************************************************************************)
(* The stack, register, output and trampoline instructions, run on top     *)
(* stacks of every length, with and without a register and a stack below.  *)
(***************************************************************************)
\* what a program does before the instructions under test; the host has
\* pushed up to MaxPushed values before:
\*   5, 5 6       one, two more values
\*   5 &          the register holds 5
\*   0 [, 1 [     a new top stack with none, one of the values
\*   5 & 1 [ 7 &  two stacks, each with a register
\*   1 2 ,        the Float 0.5
OpsPrefixes == { <<>>, <<"5">>, <<"5", "6">>, <<"5", "&">>, <<"0", "[">>,
                 <<"1", "[">>, <<"5", "&", "1", "[", "7", "&">>, <<"1", "2", ",">> }

\* the instructions under test; `z` is an invalid opcode
OpsSeqs == { <<":">>, <<"~">>, <<"o">>, <<"n">>, <<"[">>, <<"$">>, <<".">>, <<"g">>,
             <<"+">>, <<"-">>, <<"*">>, <<",">>, <<"%">>, <<"=">>, <<")">>, <<"(">>,
             <<"@">>, <<"p">>, <<"&">>, <<"}">>, <<"{">>, <<"r">>, <<"l">>, <<"]">>,
             <<"?", "z">>, <<"!", "z">>, <<"{", "}">>, <<"}", "{">>, <<"&", "&">>,
             <<"o", "o">>, <<"n", "o">>, <<"1", "[">>, <<"[", "]">>, <<"1", "[", "]">>,
             <<"2", "[", "]">> }

\* trampolines at the edge of the grid, for each direction
OpsEdges ==
    { CodeBox_load(<< L(<<"!", ";", "!">>) >>),
      CodeBox_load(<< L(<<"<", "!", ";", "?">>) >>),
      CodeBox_load(<< L(<<"^">>), L(<<"!">>), L(<<";">>), L(<<"?">>) >>),
      CodeBox_load(<< L(<<"v">>), L(<<"!">>), L(<<"z">>), L(<<"!">>) >>) }

Mirrors == {"/", "\\", "|", "_", "#"}

\* each mirror met in each direction, after `155p` has written the overlay
OpsMirrors ==
    UNION { { CodeBox_load(<< L(<<"1", "5", "5", "p", mi>>) >>),
              CodeBox_load(<< L(<<"1", "5", "5", "p", "v">>), L(<<mi, " ", " ", " ", "<">>) >>),
              CodeBox_load(<< L(<<"1", "5", "5", "p", "v">>), L(<<" ", " ", " ", " ", mi>>) >>),
              CodeBox_load(<< L(<<"1", "5", "5", "p", "^">>), L(<<" ", " ", " ", " ", mi>>) >>) }
            : mi \in Mirrors }

\* bytes that are no opcode: NUL, `A`, `F`, `G`, `h`, `z`, DEL, 0x80, 0xff
InvalidBytes == {0, 65, 70, 71, 104, 122, 127, 128, 255}

\* a byte that is no opcode, met after `155p` has written the overlay
OpsInvalid == { CodeBox_load(<< L(<<"1", "5", "5", "p">>) \o <<b, B(";")>> >>) : b \in InvalidBytes }

\* one line: the prefix, the instructions under test, `;`
OpsPrograms ==
    { CodeBox_load(<< L(pre \o ops \o <<";">>) >>) : pre \in OpsPrefixes, ops \in OpsSeqs }
    \cup OpsEdges \cup OpsMirrors \cup OpsInvalid

run_ops ==
    /\ pc = "idle" /\ runs = 0
    /\ \E c \in OpsPrograms : code' = c
    /\ Becomes(reset(Self))
    /\ pc' = "fetch"
    /\ result' = "none"
    /\ runs' = runs + 1
    /\ poked' = HashMap_new
    /\ hist' = <<>>
    /\ UNCHANGED <<trace, stderr, instruction, left, stdin>>

NextOps == push_i64 \/ run_ops \/ run_fetch \/ run_execute \/ run_advance

SpecOps == Init /\ [][NextOps]_vars

(***************************************************************************)
(* The input instruction, run on input streams of several lengths.         *)
(***************************************************************************)
\* input streams: empty, one byte, two bytes, a byte and then a failed read
IOInputs == { <<>>, <<97>>, <<97, 200>>, <<200, 97, 97>>, <<98, ReadError>> }

\* `i:0(?;o` copies the input to the output up to the end of the input
IOPrograms ==
    { CodeBox_load(<< L(<<"i", ";">>) >>),
      CodeBox_load(<< L(<<"i", "i", ";">>) >>),
      CodeBox_load(<< L(<<"i", "i", "i", ";">>) >>),
      CodeBox_load(<< L(<<"i", "~", "i", "i", "i", ";">>) >>),
      CodeBox_load(<< L(<<"i", ":", "0", "(", "?", ";", "o">>) >>) }

InitIO ==
    /\ code = P_empty
    /\ ip = [chr |-> 0, line |-> 0]
    /\ dir = "Right"
    /\ stack = StackOfStacks_new
    /\ memory = HashMap_new
    /\ trace = FALSE
    /\ input \in IOInputs
    /\ output = <<>>
    /\ state = "Normal"
    /\ memory_is_dirty = FALSE
    /\ stderr = <<>>
    /\ pc = "idle"
    /\ instruction = 0
    /\ result = "none"
    /\ runs = 0
    /\ left = [ip |-> [chr |-> 0, line |-> 0], dir |-> "Right", state |-> "Normal"]
    /\ poked = HashMap_new
    /\ hist = <<>>
    /\ stdin = input

\* run may be called again: the input goes on where the run before left it
run_io ==
    /\ pc = "idle" /\ runs < MaxRuns
    /\ \E c \in IOPrograms : code' = c
    /\ Becomes(reset(Self))
    /\ pc' = "fetch"
    /\ result' = "none"
    /\ runs' = runs + 1
    /\ poked' = HashMap_new
    /\ hist' = <<>>
    /\ UNCHANGED <<trace, stderr, instruction, left, stdin>>

NextIO == run_io \/ run_fetch \/ run_execute \/ run_advance

SpecIO == InitIO /\ [][NextIO]_vars

(***************************************************************************)
(* Properties                                                              *)
(***************************************************************************)
Origin == [chr |-> 0, line |-> 0]

NonEmptyGrid == code.width >= 1 /\ code.height >= 1

InBounds == ip.chr >= 0 /\ ip.chr < code.width /\ ip.line >= 0 /\ ip.line < code.height

\* one step from p in direction d, by modular arithmetic on the grid c
StepFrom(p, d, c) ==
    CASE d = "Right" -> [p EXCEPT !.chr = (p.chr + 1) % c.width]
      [] d = "Left" -> [p EXCEPT !.chr = (p.chr - 1) % c.width]
      [] d = "Down" -> [p EXCEPT !.line = (p.line + 1) % c.height]
      [] d = "Up" -> [p EXCEPT !.line = (p.line - 1) % c.height]

\* the step executes the instruction `b` in the Normal state
Executes(b) == pc = "execute" /\ state = "Normal" /\ instruction = b

\* the values of the top stack, the last one first
TopVal(k) == top(stack).values[Len(top(stack).values) + 1 - k]

\* C1: on a grid with width >= 1 and height >= 1, at each fetch the IP
\* satisfies 0 <= chr < width and 0 <= line < height, whatever instructions
\* (skips and jumps included) were executed before.
C1_IpInBoundsAtFetch == (pc = "fetch" /\ NonEmptyGrid) => InBounds

\* a fetch after a jump to column 0 followed by an advance to the Left, which
\* wrapped to the last column
C1_Witness ==
    /\ pc = "fetch" /\ code = P_xjump /\ instruction = B(".")
    /\ dir = "Left" /\ ip.chr = code.width - 1

\* C2: in every reachable state the stack of stacks holds at least one
\* stack, so `top` is defined, also after `]` was executed more often than `[`.
C2_AtLeastOneStack == Len(stack) >= 1

\* the third `]` of "112[3]]];" has been executed: two more than `[`
C2_Witness ==
    /\ code = P_stacks /\ pc = "advance" /\ instruction = B("]") /\ ip.chr = 7
    /\ Len(stack) = 1

\* C3: run returns Ok only when `;` is executed in the Normal state, and
\* returns Err(kind) at the first failing fetch or instruction (here: a fetch
\* outside the grid, an invalid opcode, a jump on fewer than two values);
\* once it has returned, nothing more is fetched or executed.
C3_RunReturns ==
    /\ [](result = "Ok" => (pc = "idle" /\ instruction = B(";") /\ state = "Normal"))
    /\ [](result \in RuntimeError => pc = "idle")
    /\ [][ /\ (pc' = "idle" /\ result' = "Ok") => Executes(B(";"))
           /\ (pc = "fetch" /\ fetch(Self, code) = None)
                 => (pc' = "idle" /\ result' = "InvalidIpPosition")
           /\ Executes(B("z")) => (pc' = "idle" /\ result' = "InvalidInstruction")
           /\ (Executes(B(".")) /\ Len(top(stack).values) < 2)
                 => (pc' = "idle" /\ result' = "StackUnderflow")
           /\ (pc = "idle" /\ runs > 0 /\ runs' = runs)
                 => UNCHANGED <<ip, dir, stack, memory, memory_is_dirty, input,
                                output, state, instruction, result>> ]_vars

\* "'";z/';" has returned Ok at its last cell: the `;` inside the string was
\* pushed, the `;` after it stopped the run
C3_Witness ==
    /\ code = P_squote /\ result = "Ok" /\ pc = "idle" /\ ip.chr = 6
    /\ Len(top(stack).values) = 4 /\ TopVal(3) = Val_Byte(B(";"))

\* C4: every run begins, through reset, with IP = (0,0), direction Right and
\* parser state Normal, whatever the previous run left behind.
C4_RunBeginsReset ==
    [][(pc = "idle" /\ pc' # "idle")
         => (ip' = Origin /\ dir' = "Right" /\ state' = "Normal" /\ pc' = "fetch")]_vars

\* a third run begins after a run that ended, by a fetch outside the grid,
\* inside a quoted string, moving Down, at line 2
C4_Witness ==
    /\ runs = 3 /\ pc = "fetch" /\ result = "none" /\ instruction = B("'")
    /\ left = [ip |-> [chr |-> 0, line |-> 2], dir |-> "Down", state |-> "SingleQuoted"]
    /\ ip = Origin /\ dir = "Right" /\ state = "Normal"

\* C5: reset, and so the start of a second run, leaves the stack of stacks
\* (values and registers), the overlay and the dirty flag unchanged.
C5_ResetKeepsStacksAndOverlay ==
    [][(pc = "idle" /\ pc' # "idle")
         => UNCHANGED <<stack, memory, memory_is_dirty, input, output>>]_vars

\* a second run begins with the value, the register and the two overlay
\* cells the first run left
C5_Witness ==
    /\ runs = 2 /\ pc = "fetch" /\ result = "none" /\ instruction = B(";")
    /\ stack = << [values |-> <<Val_Byte(6)>>, register |-> Some(Val_Byte(7))] >>
    /\ memory_is_dirty
    /\ DOMAIN memory = {MemPos(0, 0), MemPos(0, 1)}
    /\ memory[MemPos(0, 0)] = Val_Byte(B("v"))

\* C6: from an in-bounds IP one advance changes only the coordinate on the
\* axis of the direction, by +1 or -1 modulo the dimension; the other
\* coordinate and the direction are unchanged.  Checked for the advance of
\* the loop and for the advance `!` performs.
C6_AdvanceWraps ==
    [][ /\ (pc = "advance" /\ pc' = "fetch" /\ NonEmptyGrid /\ InBounds)
              => (ip' = StepFrom(ip, dir, code) /\ dir' = dir)
        /\ (Executes(B("!")) /\ NonEmptyGrid /\ InBounds)
              => (ip' = StepFrom(ip, dir, code) /\ dir' = dir) ]_vars

\* `x` at (0,0) chose Up and the advance wrapped to the last line
C6_Witness ==
    /\ code = P_xjump /\ pc = "fetch" /\ instruction = B("x")
    /\ dir = "Up" /\ ip = [chr |-> 0, line |-> code.height - 1] /\ code.height >= 2

\* the i64 coercions of the two values `.` pops: y is the last value, x the
\* one under it
JumpY == to_i64(TopVal(1))

JumpX == to_i64(TopVal(2))

\* the step executes `.` on at least two values
Jumps == Executes(B(".")) /\ Len(top(stack).values) >= 2

\* C7: `.` pops y then x; if x < 0 or y < 0 it fails with InvalidIpPosition
\* and the IP is unchanged; otherwise the IP becomes (x,y) where, each on its
\* own, x >= width becomes 0 and y >= height becomes 0.
C7_JumpSetsIp ==
    [][Jumps =>
         /\ stack' = [stack EXCEPT ![Len(stack)].values = SubSeq(@, 1, Len(@) - 2)]
         /\ IF JumpX < 0 \/ JumpY < 0
            THEN pc' = "idle" /\ result' = "InvalidIpPosition" /\ ip' = ip
            ELSE /\ pc' = "advance" /\ result' = result
                 /\ ip'.chr = (IF JumpX >= code.width THEN 0 ELSE JumpX)
                 /\ ip'.line = (IF JumpY >= code.height THEN 0 ELSE JumpY)]_vars

\* traced: `.` was executed on x = 4, y = 1 in the 4 x 3 grid; the column,
\* equal to the width, became 0 and the line stayed 1
C7_Witness ==
    /\ code = P_dot /\ pc = "advance" /\ instruction = B(".") /\ trace
    /\ Len(stderr) = 1 /\ stderr[1].stack = <<Val_Int(4), Val_Int(1)>>
    /\ ip = [chr |-> 0, line |-> 1]

\* C8 as stated: after `.` with non-negative x and y the IP before the
\* following advance is (x mod width, y mod height).
C8_JumpModulo ==
    [][(Jumps /\ NonEmptyGrid /\ JumpX >= 0 /\ JumpY >= 0)
         => (ip'.chr = JumpX % code.width /\ ip'.line = JumpY % code.height)]_vars

\* C8, amended: after `.` with non-negative x and y the IP before the
\* following advance is in the grid; a coordinate below its dimension is kept
\* and any other becomes 0, so the coordinate is x mod width (y mod height)
\* exactly when x < width or x is a multiple of width (likewise for y).
C8_JumpOutOfRangeIsZero ==
    [][(Jumps /\ NonEmptyGrid /\ JumpX >= 0 /\ JumpY >= 0)
         => /\ ip'.chr < code.width /\ ip'.line < code.height
            /\ (ip'.chr = JumpX % code.width)
                  <=> (JumpX < code.width \/ JumpX % code.width = 0)
            /\ (ip'.line = JumpY % code.height)
                  <=> (JumpY < code.height \/ JumpY % code.height = 0)
            /\ ip'.chr # JumpX % code.width => ip'.chr = 0
            /\ ip'.line # JumpY % code.height => ip'.line = 0]_vars

\* traced: `.` was executed on x = 1, y = 4 in the 4 x 3 grid; 4 mod 3 is 1
\* but the line became 0
C8_Witness ==
    /\ code = P_dot /\ pc = "advance" /\ instruction = B(".") /\ trace
    /\ Len(stderr) = 1 /\ stderr[1].stack = <<Val_Int(1), Val_Int(4)>>
    /\ ip = [chr |-> 1, line |-> 0]

\* C9: after a successful `.` the ordinary advance is still performed: the
\* next fetch is one step in the current direction from the jump's target
\* (with wrap-around), a different cell whenever the grid has more than one
\* cell on that axis.
C9_AdvanceAfterJump ==
    [][ /\ (Jumps /\ JumpX >= 0 /\ JumpY >= 0) => pc' = "advance"
        /\ (pc = "advance" /\ instruction = B(".") /\ NonEmptyGrid)
              => /\ pc' = "fetch" /\ dir' = dir
                 /\ ip' = StepFrom(ip, dir, code)
                 /\ (dir \in {"Right", "Left"} /\ code.width >= 2) => ip'.chr # ip.chr
                 /\ (dir \in {"Up", "Down"} /\ code.height >= 2) => ip'.line # ip.line ]_vars

\* "11.;" / "  5;": after the jump to (1,1) the cell fetched is (2,1), `5`
C9_Witness ==
    /\ code = P_jump /\ pc = "execute" /\ instruction = B("5")
    /\ ip = [chr |-> 2, line |-> 1] /\ top(stack).values = <<>>

\* C10: in the SingleQuoted state every fetched byte other than `'` is
\* pushed as Byte on the top stack and `'` returns to Normal without
\* pushing; likewise for DoubleQuoted and `"`.  Nothing else changes, and the
\* run goes on to the advance: it neither stops nor fails.
C10_QuotedPushes ==
    [][(pc = "execute" /\ state \in {"SingleQuoted", "DoubleQuoted"})
         => LET q == IF state = "SingleQuoted" THEN B("'") ELSE B("\"") IN
            /\ pc' = "advance" /\ result' = result
            /\ UNCHANGED <<ip, dir, memory, memory_is_dirty, input, output>>
            /\ IF instruction = q
               THEN state' = "Normal" /\ stack' = stack
               ELSE /\ state' = state
                    /\ stack' = [stack EXCEPT ![Len(stack)].values =
                                    Append(@, Val_Byte(instruction))]]_vars

\* inside '...' the bytes `"`, `;`, `z` (an invalid opcode) and `/` have been
\* pushed and the string is still open
C10_Witness ==
    /\ code = P_squote /\ pc = "advance" /\ state = "SingleQuoted"
    /\ top(stack).values = <<Val_Byte(B("\"")), Val_Byte(B(";")),
                             Val_Byte(B("z")), Val_Byte(B("/"))>>

\* the byte of the grid c at column x of line y: a line shorter than the
\* widest one reads as spaces
GridByte(c, x, y) ==
    IF y + 1 <= Len(c.data) /\ x + 1 <= Len(c.data[y + 1])
    THEN c.data[y + 1][x + 1] ELSE B(" ")

InGrid(c, x, y) == x >= 0 /\ x < c.width /\ y >= 0 /\ y < c.height

\* the step executes `p` on at least three values: v, x, y from the bottom
Pokes == Executes(B("p")) /\ Len(top(stack).values) >= 3

PokeY == to_i64(TopVal(1))

PokeX == to_i64(TopVal(2))

PokeV == TopVal(3)

\* C11: the byte executed at the IP is the overlay value there coerced to
\* u8 whenever the overlay has an entry at the IP, and the grid byte
\* otherwise; a `p` that records a value at a cell of the grid (its own cell
\* included) makes that value, coerced to u8, the byte of that cell.
C11_FetchOverlayFirst ==
    [][ /\ (pc = "fetch" /\ pc' # "idle")
              => instruction' = (IF <<ip.chr, ip.line>> \in DOMAIN memory
                                 THEN to_u8(memory[<<ip.chr, ip.line>>])
                                 ELSE GridByte(code, ip.chr, ip.line))
        /\ (pc = "fetch" /\ <<ip.chr, ip.line>> \in DOMAIN memory) => pc' # "idle"
        /\ (Pokes /\ memory' # memory)
              => /\ memory_is_dirty'
                 /\ memory' = [q \in (DOMAIN memory) \cup {<<PokeX, PokeY>>} |->
                                  IF q = <<PokeX, PokeY>> THEN PokeV ELSE memory[q]] ]_vars

\* "ff6+*70p" returned Ok at the cell of `p`: the overlay holds Int(315)
\* there and the byte executed was 315 as u8, `;`
C11_Witness ==
    /\ code = P_coerce /\ runs = 1 /\ result = "Ok" /\ pc = "idle"
    /\ ip = [chr |-> 7, line |-> 0] /\ instruction = B(";")
    /\ GridByte(code, 7, 0) = B("p")
    /\ memory[<<7, 0>>] = Val_Int(315)

\* the value read at the cell pos: the overlay entry, or the byte of the
\* grid with 0 for a space and for a cell outside the grid
ReadAt(pos) ==
    IF pos \in DOMAIN memory THEN memory[pos]
    ELSE IF InGrid(code, pos[1], pos[2]) /\ GridByte(code, pos[1], pos[2]) # B(" ")
         THEN Val_Byte(GridByte(code, pos[1], pos[2]))
         ELSE Val_Byte(0)

\* Byte and Int are the same value when their numbers are; a Float is the
\* same value only as the same Float, and NaN as none
SameValue(a, b) ==
    IF a.t = "Float" \/ b.t = "Float"
    THEN a.t = "Float" /\ b.t = "Float" /\ a = b /\ ~(a.d = 0 /\ a.n = 0)
    ELSE a.n = b.n

\* the top stack without its last k values
Popped(k) == [stack EXCEPT ![Len(stack)].values = SubSeq(@, 1, Len(@) - k)]

\* C12: `p` pops y, x, v and compares v with the value `g` would read at
\* (x,y).  If they are equal (Byte and Int by their i64 value, a Float only
\* with an equal Float) the overlay and the dirty flag are unchanged;
\* otherwise overlay[(x,y)] = v and dirty = true.  A `p` on a cell that has
\* an entry, or of the value the cell reads as, does not grow the overlay:
\* repeating the same `p` never does.
C12_WriteMemoryIdempotent ==
    [][Pokes =>
         LET pos == <<PokeX, PokeY>> IN
         /\ pc' = "advance" /\ stack' = Popped(3)
         /\ IF SameValue(PokeV, ReadAt(pos))
            THEN UNCHANGED <<memory, memory_is_dirty>>
            ELSE /\ memory_is_dirty'
                 /\ DOMAIN memory' = (DOMAIN memory) \cup {pos}
                 /\ memory'[pos] = PokeV
                 /\ \A q \in (DOMAIN memory) \ {pos} : memory'[q] = memory[q]
         /\ (pos \in DOMAIN memory \/ SameValue(PokeV, ReadAt(pos)))
               => DOMAIN memory' = DOMAIN memory]_vars

\* "100p00g00p0aap;": the second `p` of 1 at (0,0) has been executed and the
\* overlay still holds the one entry the first `p` made
C12_Witness ==
    /\ code = P_repeat /\ pc = "advance" /\ instruction = B("p") /\ ip.chr = 9
    /\ DOMAIN memory = {<<0, 0>>} /\ memory[<<0, 0>>] = Val_Byte(1)
    /\ memory_is_dirty

\* the step executes `g` on at least two values: x, y from the bottom
Peeks == Executes(B("g")) /\ Len(top(stack).values) >= 2

PeekY == to_i64(TopVal(1))

PeekX == to_i64(TopVal(2))

\* C13: for any coordinates (x,y), in the grid, beyond it or negative: once
\* a `p` of this run was given v for (x,y), a `g` at (x,y) with no `p` to
\* that cell in between pushes v, or (when the `p` found the cell to read as
\* v already) a value equal to v.
C13_StoreThenLoad ==
    [][(Peeks /\ <<PeekX, PeekY>> \in DOMAIN poked)
         => LET v == poked[<<PeekX, PeekY>>]
                vals == top(stack').values
            IN  /\ pc' = "advance"
                /\ Len(stack') = Len(stack)
                /\ Len(vals) = Len(top(stack).values) - 1
                /\ SubSeq(vals, 1, Len(vals) - 1) = top(Popped(2)).values
                /\ (vals[Len(vals)] = v \/ SameValue(v, vals[Len(vals)]))]_vars

\* "599p 99g;" returned Ok with [Byte(5)] on the stack and Byte(5) in the
\* overlay at (9,9), outside the grid
C13_Witness ==
    /\ code = P_write /\ result = "Ok" /\ pc = "idle" /\ runs = 1
    /\ top(stack).values = <<Val_Byte(5)>>
    /\ memory[<<9, 9>>] = Val_Byte(5) /\ poked[<<9, 9>>] = Val_Byte(5)
    /\ ~InGrid(code, 9, 9)

\* what the grid holds at (x,y) for `g`: 0 outside the grid (negative
\* coordinates included), past the end of a short line and for a space
GridValue(x, y) ==
    IF x < 0 \/ y < 0 \/ x >= code.width \/ y >= code.height THEN 0
    ELSE IF x >= Len(code.data[y + 1]) THEN 0
    ELSE IF code.data[y + 1][x + 1] = B(" ") THEN 0
    ELSE code.data[y + 1][x + 1]

\* C14: `g` at coordinates with no overlay entry pushes Byte(b) for the
\* grid byte b, and Byte(0) when the cell holds a space, lies past the end
\* of a short line or lies outside the grid (negative coordinates
\* included); with two values to pop `g` never fails, whatever the
\* coordinates are.
C14_ReadMemoryGrid ==
    [][Peeks =>
         /\ pc' = "advance" /\ result' = result
         /\ UNCHANGED <<ip, dir, state, memory, memory_is_dirty>>
         /\ (<<PeekX, PeekY>> \notin DOMAIN memory)
               => stack' = [Popped(2) EXCEPT ![Len(stack)].values =
                               Append(@, Val_Byte(GridValue(PeekX, PeekY)))]]_vars

\* traced: "g ;7" / "6" was run on x = -1, y = 1 and returned Ok with
\* [Byte(0)] on the stack
C14_Witness ==
    /\ code = P_peek /\ result = "Ok" /\ pc = "idle" /\ runs = 1 /\ trace
    /\ stderr[1].stack = <<Val_Int(-1), Val_Int(1)>>
    /\ top(stack).values = <<Val_Byte(0)>>

\* the step executes the instruction `b` on at least two values: the
\* operands are y (second from the top) and x (top)
Operates(b) == Executes(b) /\ Len(top(stack).values) >= 2

OpX == TopVal(1)

OpY == TopVal(2)

\* the value is a number equal to zero, of any kind
IsZero(v) == v.d # 0 /\ v.n = 0

\* the instruction fails with the error e and pushes nothing
FailsWith(e) == pc' = "idle" /\ result' = e /\ stack' = Popped(2)

\* the instruction pushes w in place of its two operands and the run goes on
Pushes(w) ==
    /\ pc' = "advance" /\ result' = result
    /\ stack' = [Popped(2) EXCEPT ![Len(stack)].values = Append(@, w)]

\* C15: for every pair of operands whose divisor x (the top value) is zero,
\* `,` fails with DivideByZero and pushes no result, whatever the dividend y
\* is (y = 0 included).
C15_DivideByZeroFails ==
    [][(Operates(B(",")) /\ IsZero(OpX)) => FailsWith("DivideByZero")]_vars

\* the i64 coercions of the operands
IntX == to_i64(OpX)

IntY == to_i64(OpY)

\* the remainder of y by x that has the sign of y, on the integers
TruncRem(y, x) == IF y < 0 THEN -((-y) % Abs(x)) ELSE y % Abs(x)

\* the intermediate addition of `%`, remainder + x, stays in the i64 range
RemSumFits == LET sum == TruncRem(IntY, IntX) + IntX IN sum >= I64_MIN /\ sum <= I64_MAX

\* r is the floored modulo of y by x
IsFlooredMod(r, y, x) ==
    /\ (y - r) % Abs(x) = 0
    /\ Abs(r) < Abs(x)
    /\ (r = 0 \/ (r > 0 /\ x > 0) \/ (r < 0 /\ x < 0))

\* the instruction pushes a value of type t in place of its two operands
PushesA(t) ==
    /\ pc' = "advance" /\ result' = result
    /\ \E w \in {top(stack').values[i] : i \in 1..Len(top(stack').values)} :
          w.t = t /\ stack' = [Popped(2) EXCEPT ![Len(stack)].values = Append(@, w)]

\* C16: for the i64 coercions y (second) and x (top): `%` with x = 0 fails
\* with DivideByZero; with x # 0 and no overflow of the intermediate addition
\* it pushes Int(r), r the floored modulo: r is congruent to y modulo x,
\* |r| < |x|, and r is 0 or has the sign of x (-1 % 13 = 12).
C16_FlooredModulo ==
    [][Operates(B("%")) =>
         IF IntX = 0 THEN FailsWith("DivideByZero")
         ELSE RemSumFits =>
                /\ PushesA("Int")
                /\ IsFlooredMod(top(stack').values[Len(top(stack').values)].n,
                                IntY, IntX)]_vars

\* C17: for every pair of i64 operands, the extreme values included, `%`
\* ends either by pushing an Int or by failing with DivideByZero or
\* IntegerOverflow; it has no other outcome.
C17_RemOutcomes ==
    [][Operates(B("%")) =>
         \/ PushesA("Int")
         \/ FailsWith("DivideByZero")
         \/ FailsWith("IntegerOverflow")]_vars

\* the exact result of y op x on the integers
Exact(op, y, x) ==
    CASE op = "+" -> y + x
      [] op = "-" -> y - x
      [] op = "*" -> y * x

\* C18: for two operands that are not Floats (Byte or Int), `+`, `-` and `*`
\* compute y op x (x the top, y the second) on the i64 values and push an
\* Int, also for Byte op Byte; they fail with IntegerOverflow, pushing
\* nothing, exactly when the exact result lies outside the i64 range.
C18_IntegerArithmetic ==
    [][\A op \in {"+", "-", "*"} :
         (Operates(B(op)) /\ OpX.t # "Float" /\ OpY.t # "Float")
           => LET r == Exact(op, OpY.n, OpX.n) IN
              IF r >= I64_MIN /\ r <= I64_MAX
              THEN Pushes(Val_Int(r))
              ELSE FailsWith("IntegerOverflow")]_vars

\* traced: `+` was executed on Int(I64_MAX) and Byte(1) and failed with
\* IntegerOverflow, leaving nothing on the stack
C18_Witness ==
    /\ result = "IntegerOverflow" /\ pc = "idle" /\ trace /\ Len(stderr) = 2
    /\ stderr[2].next_instr = B("+")
    /\ stderr[2].stack = <<Val_Int(I64_MAX), Val_Byte(1)>>
    /\ top(stack).values = <<>>

\* C19: `+`, `-` and `*` push a Float exactly when at least one of the two
\* operands is a Float, in either position, and then never fail with
\* IntegerOverflow; `,` pushes a Float on every success, also for two
\* integer operands that divide exactly.
C19_FloatResults ==
    [][ /\ \A op \in {"+", "-", "*"} :
              Operates(B(op))
                => IF OpX.t = "Float" \/ OpY.t = "Float"
                   THEN PushesA("Float")
                   ELSE PushesA("Int") \/ FailsWith("IntegerOverflow")
        /\ Operates(B(","))
              => (PushesA("Float") \/ FailsWith("DivideByZero")) ]_vars

\* traced: `*` was executed on Int(I64_MAX) and Float(I64_MAX / 2), whose
\* product is outside the i64 range, and pushed the Float
C19_Witness ==
    /\ pc = "advance" /\ instruction = B("*") /\ trace /\ Len(stderr) = 3
    /\ stderr[3].stack = <<Val_Int(I64_MAX), Val_Float(I64_MAX, 2)>>
    /\ top(stack).values = <<Val_Float(I64_MAX * I64_MAX, 2)>>
    /\ I64_MAX * I64_MAX > 2 * I64_MAX

\* the i64 a value is compared as: a Float loses its fraction, toward zero
Truncated(v) ==
    IF v.t = "Float" /\ v.d # 0
    THEN (IF v.n >= 0 THEN v.n \div v.d ELSE -((-v.n) \div v.d))
    ELSE to_i64(v)

\* C20: `=`, `)` and `(` pop x then y, compare the i64 coercions of both (a
\* Float is truncated toward zero first) and push Byte(1) when y = x,
\* y > x, y < x respectively and Byte(0) otherwise.
C20_Comparisons ==
    [][ /\ Operates(B("="))
              => Pushes(Val_Byte(IF Truncated(OpY) = Truncated(OpX) THEN 1 ELSE 0))
        /\ Operates(B(")"))
              => Pushes(Val_Byte(IF Truncated(OpY) > Truncated(OpX) THEN 1 ELSE 0))
        /\ Operates(B("("))
              => Pushes(Val_Byte(IF Truncated(OpY) < Truncated(OpX) THEN 1 ELSE 0))
        /\ \A op \in {"=", ")", "("} :
              Operates(B(op))
                => top(stack').values[Len(top(stack').values)]
                     \in {Val_Byte(0), Val_Byte(1)} ]_vars

\* traced: `=` was executed on Int(0) and Float(-1/2) and pushed Byte(1)
C20_Witness ==
    /\ pc = "advance" /\ instruction = B("=") /\ trace /\ Len(stderr) = 3
    /\ stderr[3].stack = <<Val_Int(0), Val_Float(-1, 2)>>
    /\ top(stack).values = <<Val_Byte(1)>>

\* the record of the instruction executed last
Last == hist[Len(hist)]

\* the record of the instruction executed before the last one
Before == hist[Len(hist) - 1]

\* the number of values the instruction b needs on the top stack s
Needs(b, s) ==
    CASE b \in {B(":"), B("~"), B("?"), B("o"), B("n"), B("[")} -> 1
      [] b \in {B("$"), B("."), B("g")} \cup {B(c) : c \in MathOps} -> 2
      [] b \in {B("@"), B("p")} -> 3
      [] b = B("&") -> IF s.register = None THEN 1 ELSE 0
      [] OTHER -> 0

NeverFail == {B("}"), B("{"), B("r"), B("l"), B("]")}

StackOps ==
    {B(":"), B("~"), B("?"), B("o"), B("n"), B("["), B("$"), B("."), B("g"),
     B("@"), B("p"), B("&")} \cup {B(c) : c \in MathOps} \cup NeverFail

Underflows == pc' = "idle" /\ result' = "StackUnderflow"

TooFew(b) == Len(top(stack).values) < Needs(b, top(stack))

\* `[` asks for more values than remain under its count, or for a negative number
BadCount(b) ==
    /\ b = B("[")
    /\ Len(top(stack).values) >= 1
    /\ to_i64(TopVal(1)) < 0 \/ to_i64(TopVal(1)) > Len(top(stack).values) - 1

\* C21 as stated: an instruction fails with StackUnderflow exactly when the
\* top stack holds fewer values than it needs (1 for `:` `~` `?` `o` `n` `[`,
\* 2 for `$` `.` `g` and the arithmetic and comparison operators, 3 for `@`
\* and `p`, 1 for `&` with an empty register), and `}` `{` `r` `l` `]` never
\* fail.
C21_UnderflowExactlyWhenTooFew ==
    [][\A b \in StackOps : Executes(b) =>
          /\ Underflows <=> TooFew(b)
          /\ b \in NeverFail => pc' = "advance"]_vars

\* C21, amended: an instruction fails with StackUnderflow exactly when the top
\* stack holds fewer values than it needs, or when it is `[` and the count it
\* pops is negative or larger than the number of values that remain; values
\* in lower stacks never count, and `}` `{` `r` `l` `]` never fail.
C21_Underflow ==
    [][\A b \in StackOps : Executes(b) =>
          /\ Underflows <=> (TooFew(b) \/ BadCount(b))
          /\ b \in NeverFail => pc' = "advance"]_vars

\* `[` has failed on a top stack that held a count larger than the values
\* left, above a stack that holds a value
C21_Witness ==
    /\ pc = "idle" /\ result = "StackUnderflow" /\ hist # <<>>
    /\ Last.instruction = B("[") /\ Last.state = "Normal"
    /\ Len(Last.stack) = 2
    /\ Len(Last.stack[1].values) >= 1
    /\ Len(Last.stack[2].values) = 1
    /\ to_i64(Last.stack[2].values[1]) > 0

\* the values of the top stack before the instruction
Vals == top(stack).values

\* the instruction succeeds and leaves the values v on the top stack, the
\* register of the top stack and the stacks below as they were
TopBecomes(v) ==
    /\ pc' = "advance" /\ result' = result
    /\ stack' = [stack EXCEPT ![Len(stack)].values = v]

\* C22: `@` on a top stack of length >= 3 turns [..., a, b, c] into
\* [..., c, a, b]; the values further down are unchanged.
C22_Swap2 ==
    [][(Executes(B("@")) /\ Len(Vals) >= 3) =>
          TopBecomes(SubSeq(Vals, 1, Len(Vals) - 3) \o <<TopVal(1), TopVal(3), TopVal(2)>>)]_vars

\* `@` has run on four values or more, the top three of them distinct
C22_Witness ==
    /\ pc = "advance" /\ hist # <<>>
    /\ Last.instruction = B("@") /\ Last.state = "Normal"
    /\ LET v == top(Last.stack).values
           n == Len(v)
       IN  /\ n >= 4
           /\ v[n] # v[n - 1] /\ v[n] # v[n - 2] /\ v[n - 1] # v[n - 2]
           /\ top(stack).values = SubSeq(v, 1, n - 3) \o <<v[n], v[n - 2], v[n - 1]>>

\* the instruction executed just before was `b`, in the Normal state
After(b) == hist # <<>> /\ Last.instruction = b /\ Last.state = "Normal"

\* C23: `}` moves the last value of the top stack to the front and `{` moves
\* the first value to the back; both leave a stack of length <= 1 as it is
\* and never fail; `}` right after `{`, and `{` right after `}`, give back
\* the stacks as they were before the pair.
C23_Shifts ==
    [][LET n == Len(Vals) IN
       /\ Executes(B("}")) =>
             /\ TopBecomes(IF n <= 1 THEN Vals ELSE <<Vals[n]>> \o SubSeq(Vals, 1, n - 1))
             /\ After(B("{")) => stack' = Last.stack
       /\ Executes(B("{")) =>
             /\ TopBecomes(IF n <= 1 THEN Vals ELSE SubSeq(Vals, 2, n) \o <<Vals[1]>>)
             /\ After(B("}")) => stack' = Last.stack]_vars

\* `{` then `}` have run on a top stack that `{` changed, and the stacks are
\* again what they were
C23_Witness ==
    /\ pc = "advance" /\ Len(hist) >= 2
    /\ Before.instruction = B("{") /\ Before.state = "Normal"
    /\ Last.instruction = B("}") /\ Last.state = "Normal"
    /\ Len(top(Before.stack).values) >= 3
    /\ Last.stack # Before.stack
    /\ stack = Before.stack

\* the instruction succeeds and leaves s as the top stack
TopStackBecomes(s) ==
    /\ pc' = "advance" /\ result' = result
    /\ stack' = [stack EXCEPT ![Len(stack)] = s]

\* C24: `&` with an empty register pops the top value into the register; with
\* a full register it pushes the register value and empties the register.
\* A second `&` right after a first one that ran on a non-empty top stack
\* gives back the values and the register as they were before the first,
\* whether the register was empty or full.
C24_SwitchRegister ==
    [][Executes(B("&")) =>
          /\ (top(stack).register = None /\ Len(Vals) >= 1) =>
                TopStackBecomes([values |-> SubSeq(Vals, 1, Len(Vals) - 1),
                                 register |-> Some(TopVal(1))])
          /\ top(stack).register # None =>
                TopStackBecomes([values |-> Append(Vals, top(stack).register[1]),
                                 register |-> None])
          /\ (After(B("&")) /\ Len(top(Last.stack).values) >= 1) =>
                (pc' = "advance" /\ stack' = Last.stack)]_vars

\* `&` has run twice on a non-empty top stack whose register was full, and
\* values and register are again what they were
C24_Witness ==
    /\ pc = "advance" /\ Len(hist) >= 2
    /\ Before.instruction = B("&") /\ Before.state = "Normal"
    /\ Last.instruction = B("&") /\ Last.state = "Normal"
    /\ top(Before.stack).register # None
    /\ Len(top(Before.stack).values) >= 1
    /\ top(Last.stack).register = None
    /\ stack = Before.stack

\* C25: `[` pops n; with L the length of the top stack that remains: if
\* 0 <= n <= L the last n values move, in order, to a new top stack whose
\* register is empty, and the previous stack keeps its first L - n values and
\* its register; if n > L or n < 0 it fails with StackUnderflow and no stack
\* is created.
C25_PushStack ==
    [][(Executes(B("[")) /\ Len(Vals) >= 1) =>
          LET n == to_i64(TopVal(1))
              rest == SubSeq(Vals, 1, Len(Vals) - 1)
              m == Len(rest)
          IN  IF 0 <= n /\ n <= m
              THEN /\ pc' = "advance" /\ result' = result
                   /\ stack' = Append([stack EXCEPT ![Len(stack)].values = SubSeq(rest, 1, m - n)],
                                      [values |-> SubSeq(rest, m - n + 1, m), register |-> None])
              ELSE /\ Underflows
                   /\ Len(stack') = Len(stack)]_vars

\* `[` has moved some of the values, not all, off a stack whose register is
\* full
C25_Witness ==
    /\ pc = "advance" /\ hist # <<>>
    /\ Last.instruction = B("[") /\ Last.state = "Normal"
    /\ top(Last.stack).register # None
    /\ Len(stack) = Len(Last.stack) + 1
    /\ Len(top(stack).values) >= 1
    /\ Len(stack[Len(stack) - 1].values) >= 1
    /\ stack[Len(stack) - 1].register = top(Last.stack).register
    /\ top(stack).register = None

\* C26: `]` with more than one stack removes the top stack and appends its
\* values, in order, after the values of the stack below, which becomes the
\* top; the register of the removed stack is discarded and the register of
\* the stack below is kept.
C26_PopStack ==
    [][(Executes(B("]")) /\ Len(stack) > 1) =>
          LET below == stack[Len(stack) - 1] IN
          /\ pc' = "advance" /\ result' = result
          /\ Len(stack') = Len(stack) - 1
          /\ SubSeq(stack', 1, Len(stack) - 2) = SubSeq(stack, 1, Len(stack) - 2)
          /\ top(stack') = [values |-> below.values \o Vals, register |-> below.register]]_vars

\* `]` has removed a stack with values and a register from above a stack
\* with values and another register
C26_Witness ==
    /\ pc = "advance" /\ hist # <<>>
    /\ Last.instruction = B("]") /\ Last.state = "Normal"
    /\ Len(Last.stack) = 2 /\ Len(stack) = 1
    /\ Last.stack[1].values # <<>> /\ Last.stack[2].values # <<>>
    /\ Last.stack[1].register # None /\ Last.stack[2].register # None
    /\ Last.stack[1].register # Last.stack[2].register
    /\ stack[1].values = Last.stack[1].values \o Last.stack[2].values
    /\ stack[1].register = Last.stack[1].register

\* C27: `]` executed when only the initial stack exists does not fail: the
\* stack loses its values and its register, and the run goes on.
C27_PopLastStack ==
    [][(Executes(B("]")) /\ Len(stack) = 1) =>
          /\ pc' = "advance" /\ result' = result
          /\ stack' = <<[values |-> <<>>, register |-> None]>>]_vars

\* `]` has emptied the only stack, which held values and a register, and the
\* next instruction is being fetched
C27_Witness ==
    /\ pc = "fetch" /\ hist # <<>>
    /\ Last.instruction = B("]") /\ Last.state = "Normal"
    /\ Len(Last.stack) = 1
    /\ Last.stack[1].values # <<>> /\ Last.stack[1].register # None
    /\ stack = StackOfStacks_new

\* C28: for every popped value, a successful `o` appends exactly one byte to
\* the output, the u8 coercion of the value (its low 8 bits); what `o` and
\* `n` write comes after what was written before.
C28_CharOutputOneByte ==
    [][/\ (Executes(B("o")) /\ pc' = "advance") =>
             output' = Append(output, to_u8(TopVal(1)))
       /\ (Executes(B("n")) /\ pc' = "advance") =>
             /\ Len(output') > Len(output)
             /\ SubSeq(output', 1, Len(output)) = output]_vars

\* what remains of the input is the end of the input stream
Consumed == Len(stdin) - Len(input)

\* the instruction succeeds and pushes v on the top stack
PushesOnTop(v) ==
    /\ pc' = "advance" /\ result' = result
    /\ stack' = [stack EXCEPT ![Len(stack)].values = Append(@, v)]

\* C29: the input is consumed by `i` only, one byte at a time and in order:
\* the k-th executed `i` pushes Byte of the k-th byte of the input stream;
\* once the input is exhausted every further `i` pushes Int(-1), does not
\* fail, and the input stays exhausted.
C29_Input ==
    [][/\ input = SubSeq(stdin, Consumed + 1, Len(stdin))
       /\ ~Executes(B("i")) => input' = input
       /\ (Executes(B("i")) /\ input # <<>> /\ Head(input) # ReadError) =>
             /\ PushesOnTop(Val_Byte(stdin[Consumed + 1]))
             /\ input' = Tail(input)
       /\ (Executes(B("i")) /\ input = <<>>) =>
             /\ PushesOnTop(Val_Int(-1))
             /\ input' = <<>>]_vars

\* three `i` have run on an input of two different bytes: the two bytes are
\* on the stack in input order, with Int(-1) above them
C29_Witness ==
    /\ pc = "advance" /\ hist # <<>>
    /\ Last.instruction = B("i") /\ Last.state = "Normal"
    /\ Len(stdin) = 2 /\ stdin[1] # stdin[2] /\ input = <<>>
    /\ top(stack).values = <<Val_Byte(stdin[1]), Val_Byte(stdin[2]), Val_Int(-1)>>

\* the instruction executed last was a trampoline that skips: `!`, or `?`
\* on a value whose i64 coercion is 0
Skipped ==
    /\ hist # <<>> /\ Last.state = "Normal"
    /\ \/ Last.instruction = B("!")
       \/ /\ Last.instruction = B("?")
          /\ top(Last.stack).values # <<>>
          /\ to_i64(top(Last.stack).values[Len(top(Last.stack).values)]) = 0

\* the instruction executed last was `?` on a value whose i64 coercion is not 0
NotSkipped ==
    /\ hist # <<>> /\ Last.state = "Normal"
    /\ Last.instruction = B("?")
    /\ top(Last.stack).values # <<>>
    /\ to_i64(top(Last.stack).values[Len(top(Last.stack).values)]) # 0

\* C30: after `!`, and after `?` exactly when the value it popped coerces to
\* 0 as i64, the instruction fetched next is the one two steps ahead of the
\* trampoline in the current direction, with wrap-around: the cell one step
\* ahead is not executed, whatever byte it holds.  After `?` on a non-zero
\* value the cell one step ahead is fetched.  The direction is the same.
C30_Trampolines ==
    [][/\ (pc = "fetch" /\ Skipped) =>
             /\ ip = StepFrom(StepFrom(Last.ip, Last.dir, code), Last.dir, code)
             /\ dir = Last.dir
       /\ (pc = "fetch" /\ NotSkipped) =>
             /\ ip = StepFrom(Last.ip, Last.dir, code)
             /\ dir = Last.dir
       /\ (Executes(B("!")) \/ (Executes(B("?")) /\ Vals # <<>>)) => pc' = "advance"]_vars

\* `?` has popped the Float 0.5, whose i64 coercion is 0, and the invalid
\* instruction `z` next to it has been skipped: the cell after `z` is fetched
C30_Witness ==
    /\ pc = "fetch" /\ Skipped
    /\ Last.instruction = B("?")
    /\ top(Last.stack).values[Len(top(Last.stack).values)].t = "Float"
    /\ top(Last.stack).values[Len(top(Last.stack).values)].n # 0
    /\ Last.dir = "Right"
    /\ GridByte(code, Last.ip.chr + 1, Last.ip.line) = B("z")
    /\ ip = [chr |-> Last.ip.chr + 2, line |-> Last.ip.line]

\* the direction after each mirror, for the directions Right, Left, Up, Down
MirrorTable ==
    [b \in {B("/"), B("\\"), B("|"), B("_"), B("#")} |->
       CASE b = B("/") -> [Right |-> "Up", Left |-> "Down", Up |-> "Right", Down |-> "Left"]
         [] b = B("\\") -> [Right |-> "Down", Left |-> "Up", Up |-> "Left", Down |-> "Right"]
         [] b = B("|") -> [Right |-> "Left", Left |-> "Right", Up |-> "Up", Down |-> "Down"]
         [] b = B("_") -> [Right |-> "Right", Left |-> "Left", Up |-> "Down", Down |-> "Up"]
         [] b = B("#") -> [Right |-> "Left", Left |-> "Right", Up |-> "Down", Down |-> "Up"]]

\* C31: a mirror changes only the direction, by the table: `/` R->U, L->D,
\* U->R, D->L; `\` R->D, L->U, U->L, D->R; `|` R<->L; `_` U<->D; `#` R<->L
\* and U<->D.  The stacks, the overlay and the IP (before the advance) are
\* unchanged, and the run goes on.
C31_Mirrors ==
    [][\A b \in DOMAIN MirrorTable : Executes(b) =>
          /\ dir' = MirrorTable[b][dir]
          /\ pc' = "advance" /\ result' = result
          /\ UNCHANGED <<ip, stack, memory, memory_is_dirty, state, input, output>>]_vars

\* `/` met going Left has turned the IP Down, with a value on the stack and
\* an entry in the overlay
C31_Witness ==
    /\ pc = "advance" /\ hist # <<>>
    /\ Last.instruction = B("/") /\ Last.state = "Normal"
    /\ Last.dir = "Left" /\ dir = "Down"
    /\ ip = Last.ip
    /\ stack = Last.stack /\ top(stack).values # <<>>
    /\ memory # HashMap_new

\* the opcodes of the instruction table
Opcodes ==
    { B(c) : c \in {">", "<", "^", "v", "/", "\\", "|", "_", "#", "x", "!", "?", ".", ";",
                    "0", "1", "2", "3", "4", "5", "6", "7", "8", "9",
                    "a", "b", "c", "d", "e", "f", "'", "\"",
                    "+", "-", "*", ",", "%", "=", ")", "(",
                    ":", "~", "$", "@", "}", "{", "r", "l", "&", "[", "]",
                    "o", "n", "i", "g", "p"} }

\* C32: in the Normal state a byte that is neither a space nor an opcode of
\* the table makes run return InvalidInstruction, and changes neither the
\* stacks, the overlay, the IP nor the direction.
C32_InvalidInstruction ==
    [][(pc = "execute" /\ state = "Normal" /\ instruction \notin Opcodes \cup {B(" ")}) =>
          /\ pc' = "idle" /\ result' = "InvalidInstruction"
          /\ UNCHANGED <<ip, dir, stack, memory, memory_is_dirty, state>>]_vars

\* run has returned InvalidInstruction on a byte of 0x80 or more, with a
\* value on the stack and an entry in the overlay
C32_Witness ==
    /\ pc = "idle" /\ result = "InvalidInstruction" /\ hist # <<>>
    /\ Last.instruction >= 128 /\ Last.state = "Normal"
    /\ ip = Last.ip /\ dir = Last.dir /\ stack = Last.stack
    /\ top(stack).values # <<>>
    /\ memory # HashMap_new

\* what the fetch and the trace of an interpreter with these fields and the
\* trace flag off lead to
FetchUntraced ==
    LET f == fetch(Self, code) IN
    IF f = None THEN [pc |-> "idle", result |-> "InvalidIpPosition", instruction |-> instruction]
    ELSE [pc |-> "execute", result |-> result, instruction |-> f[1]]

\* C33: the trace flag changes nothing but the diagnostic stream.  The flag
\* is read between fetch and execute only; there a run with the flag on goes
\* on as the run with the flag off does from the same IP, direction, parser
\* state, stacks, overlay, input and output: to the same instruction or the
\* same result, with all of these unchanged.
C33_TraceNeverAlters ==
    [][/\ pc # "idle" => trace' = trace
       /\ pc = "fetch" =>
             /\ [pc |-> pc', result |-> result', instruction |-> instruction'] = FetchUntraced
             /\ UNCHANGED <<ip, dir, state, stack, memory, memory_is_dirty, input, output>>]_vars

\* what get(x, y) is said to return on the grid c
GetSays(c, x, y) ==
    IF x >= c.width \/ y >= c.height THEN None
    ELSE IF x < Len(c.data[y + 1]) THEN Some(c.data[y + 1][x + 1])
    ELSE Some(32)

\* the IP is inside the grid, past the end of its line, on a cell without
\* an overlay entry
PastLineEnd ==
    /\ InGrid(code, ip.chr, ip.line)
    /\ ip.chr >= Len(code.data[ip.line + 1])
    /\ HashMap_get(memory, MemPos(ip.chr, ip.line)) = None

\* C34: get(x, y) returns None when x >= width or y >= height, the stored
\* byte when (x, y) lies within its line, and a space when y < height and x
\* is past the end of a line shorter than the width; a cell past the end of
\* its line is fetched as a space and executes as a no-op.
C34_CodeBoxGet ==
    [][/\ \A x \in 0..(code.width + 1), y \in 0..(code.height + 1) :
             CodeBox_get(code, x, y) = GetSays(code, x, y)
       /\ (pc = "fetch" /\ PastLineEnd) => (pc' = "execute" /\ instruction' = B(" "))
       /\ (pc = "execute" /\ PastLineEnd /\ state = "Normal") =>
             /\ instruction = B(" ")
             /\ pc' = "advance"
             /\ UNCHANGED <<ip, dir, state, stack, memory, output>>]_vars

\* the IP has passed over a cell past the end of a line that is shorter than
\* the grid is wide
C34_Witness ==
    /\ pc = "advance" /\ state = "Normal" /\ instruction = B(" ")
    /\ PastLineEnd
    /\ code.data[ip.line + 1] # <<>>

\* C35: when run returns from an instruction, Ok on `;` or with the error of
\* the instruction, the IP and the direction are those with which that
\* instruction was fetched: the fetch leaves them as they are and nothing
\* advances the IP after the stopping or failing instruction.
C35_NoAdvanceAtReturn ==
    [][/\ (pc = "fetch" /\ pc' = "execute") => UNCHANGED <<ip, dir>>
       /\ (pc = "execute" /\ pc' = "idle") =>
             /\ result' # "none"
             /\ UNCHANGED <<ip, dir>>
             /\ left' = [ip |-> ip, dir |-> dir, state |-> state']]_vars

\* run has returned the error of an instruction that was fetched away from
\* the origin while going Left
C35_Witness ==
    /\ pc = "idle" /\ runs > 0 /\ hist # <<>>
    /\ result \notin {"none", "Ok", "InvalidIpPosition"}
    /\ Last.ip # [chr |-> 0, line |-> 0] /\ Last.dir = "Left"
    /\ ip = Last.ip /\ dir = Last.dir
    /\ left.ip = ip /\ left.dir = dir

\* the first fetch of a run: no instruction has been executed yet
FirstFetch == pc = "fetch" /\ hist = <<>>

\* run returns InvalidIpPosition with this step
ReturnsInvalidIp == pc # "idle" /\ pc' = "idle" /\ result' = "InvalidIpPosition"

\* `.` is executed on a negative x or y
NegativeJump ==
    /\ Executes(B(".")) /\ Len(Vals) >= 2
    /\ to_i64(TopVal(1)) < 0 \/ to_i64(TopVal(2)) < 0

\* on a grid with width >= 1 and height >= 1 the fetch never fails and run
\* returns InvalidIpPosition only from a `.` on a negative x or y
FetchNeverFails ==
    NonEmptyGrid =>
       /\ pc = "fetch" => pc' # "idle"
       /\ ReturnsInvalidIp => NegativeJump

\* the overlay entry the first fetch finds at (0,0)
KeptAtOrigin == IF memory_is_dirty THEN HashMap_get(memory, MemPos(0, 0)) ELSE None

\* C36 as stated: for a grid with width >= 1 and height >= 1 the fetch never
\* fails and run returns InvalidIpPosition only from a `.` whose popped x or
\* y is negative; for a grid with height 0 or width 0 the first fetch fails
\* with InvalidIpPosition before any instruction executes.
C36_EmptyGridNeverExecutes ==
    [][/\ FetchNeverFails
       /\ (FirstFetch /\ ~NonEmptyGrid) => ReturnsInvalidIp]_vars

\* C36, amended: as stated, but on a grid with height 0 or width 0 the
\* first fetch fails only if the overlay kept from an earlier run has no
\* entry at (0,0); if it has one, that entry is fetched as the first
\* instruction.
C36_FetchFailure ==
    [][/\ FetchNeverFails
       /\ (FirstFetch /\ ~NonEmptyGrid /\ KeptAtOrigin = None) => ReturnsInvalidIp
       /\ (FirstFetch /\ ~NonEmptyGrid /\ KeptAtOrigin # None) =>
             /\ ~ReturnsInvalidIp
             /\ instruction' = to_u8(KeptAtOrigin[1])]_vars

\* on a grid of width 0 a run is about to execute the instruction that an
\* earlier run left in the overlay at (0,0)
C36_Witness ==
    /\ pc = "execute" /\ hist = <<>> /\ runs >= 2
    /\ ~NonEmptyGrid /\ code.height > 0
    /\ ip = Origin
    /\ KeptAtOrigin # None /\ instruction = to_u8(KeptAtOrigin[1])

\* the dirty flag is set exactly when the overlay has an entry, and every
\* cell with an entry reads as that entry
DirtyIffWritten ==
    /\ memory_is_dirty <=> DOMAIN memory # {}
    /\ \A pos \in DOMAIN memory : get_memory(Self, code, pos[1], pos[2]) = memory[pos]

\* C37: in every state reachable through run the dirty flag is true if and
\* only if the overlay is not empty; no step clears the flag or removes an
\* entry of the overlay, so a cell that has an entry is read from the
\* overlay, never from the grid.
C37_DirtyFlag ==
    [][/\ DirtyIffWritten
       /\ DirtyIffWritten'
       /\ memory_is_dirty => memory_is_dirty'
       /\ DOMAIN memory \subseteq DOMAIN memory']_vars

\* a later run has started on the two overlay entries an earlier run
\* wrote, one of them over a cell of the grid now run
C37_Witness ==
    /\ runs >= 2 /\ pc = "fetch"
    /\ memory_is_dirty
    /\ Cardinality(DOMAIN memory) >= 2
    /\ \E pos \in DOMAIN memory :
          /\ InGrid(code, pos[1], pos[2])
          /\ memory[pos] # Val_Byte(GridByte(code, pos[1], pos[2]))

\* C38: when `:`, `~`, `$`, `@` or `&` fails with StackUnderflow, the values
\* and the register of the top stack, and every other stack, are as they
\* were before the instruction.
C38_FailureKeepsStacks ==
    [][\A b \in {B(":"), B("~"), B("$"), B("@"), B("&")} :
          (Executes(b) /\ Underflows) => stack' = stack]_vars

\* `$` has failed on a top stack of one value and a register, above another
\* stack, and all of it is as it was
C38_Witness ==
    /\ pc = "idle" /\ result = "StackUnderflow" /\ hist # <<>>
    /\ Last.instruction = B("$") /\ Last.state = "Normal"
    /\ Len(Last.stack) = 2
    /\ Len(top(Last.stack).values) = 1 /\ top(Last.stack).register # None
    /\ stack = Last.stack

\* the stacks recorded in the record h, without the top value
PoppedIn(h) == [h.stack EXCEPT ![Len(h.stack)].values = SubSeq(@, 1, Len(@) - 1)]

\* C39: when `]` is executed right after a `[` that succeeded, the new
\* stack still holding the values it was created with, the stack of stacks
\* becomes what it was right after `[` popped its count: the same number of
\* stacks, the same values in the same order, the same registers.
C39_PushThenPop ==
    [][(Executes(B("]")) /\ After(B("["))) =>
          /\ pc' = "advance"
          /\ stack' = PoppedIn(Last)]_vars

\* `[` has moved two values off a stack that has a register, and `]` has put
\* them back
C39_Witness ==
    /\ pc = "advance" /\ Len(hist) >= 2
    /\ Before.instruction = B("[") /\ Before.state = "Normal"
    /\ Last.instruction = B("]") /\ Last.state = "Normal"
    /\ Len(top(Last.stack).values) = 2
    /\ top(Last.stack).values[1] # top(Last.stack).values[2]
    /\ top(Before.stack).register # None
    /\ stack = PoppedIn(Before)

\* the stacks below the top
Below(stacks) == SubSeq(stacks, 1, Len(stacks) - 1)

\* the instruction about to be executed is `[` or `]`
SplitsOrMerges == state = "Normal" /\ instruction \in {B("["), B("]")}

\* the step does what the instruction does to an interpreter whose only
\* stack is the top stack
AsOnTopAlone ==
    \E env \in Envs :
       LET r == execute([Self EXCEPT !.stack = <<top(stack)>>], instruction, code, env) IN
       /\ top(stack') = top(r.m.stack)
       /\ pc' = CASE r.status = "Continue" -> "advance"
                  [] r.status = "Panic" -> "panicked"
                  [] OTHER -> "idle"
       /\ result' = IF r.status \in {"Continue", "Panic"} THEN result
                    ELSE IF r.status = "Stop" THEN "Ok" ELSE r.status
       /\ <<ip', dir', state', memory', output', input'>> =
             <<r.m.ip, r.m.dir, r.m.state, r.m.memory, r.m.output, r.m.input>>

\* C40: an instruction other than `[` and `]` reads and modifies the top
\* stack only: the stacks below keep their values and registers, and the
\* instruction does what it would do if the top stack were the only one.
\* `[` leaves every stack below the one it splits as it was.
C40_OnlyTopStack ==
    [][pc = "execute" =>
          /\ ~SplitsOrMerges =>
                /\ Len(stack') = Len(stack)
                /\ Below(stack') = Below(stack)
                /\ AsOnTopAlone
          /\ Executes(B("[")) => SubSeq(stack', 1, Len(stack) - 1) = Below(stack)]_vars

\* `&` has filled the register of the top stack, and the stack below, which
\* has values and a register of its own, is as it was
C40_Witness ==
    /\ pc = "advance" /\ hist # <<>>
    /\ Last.instruction = B("&") /\ Last.state = "Normal"
    /\ Len(Last.stack) = 2 /\ Len(stack) = 2
    /\ Last.stack[1].values # <<>> /\ Last.stack[1].register # None
    /\ stack[1] = Last.stack[1]
    /\ stack[2] # Last.stack[2]

====
